---- MODULE Spec2Model ----
(***************************************************************************)
(* Cost Analysis Orchestration Engine (backend/src/agentic_ai).            *)
(*                                                                         *)
(* Conventions of the model                                                *)
(*  - a usage record is a TLA+ record whose optional keys are simply       *)
(*    absent (dict.get(k, d) is Get(r, k, d));                             *)
(*  - a record's cost is a whole number of dollars; a value the code       *)
(*    rounds to 2 decimals is a whole number of cents; arithmetic is exact *)
(*    (binary floating point error is not modelled);                       *)
(*  - anomaly_score is an integer number of tenths (0.8 is 8);             *)
(*  - a Python dict that is iterated is a sequence of [k, v] pairs in      *)
(*    insertion order;                                                     *)
(*  - text that the code inspects character by character (queries,         *)
(*    recommendation strings, dates, cache keys) is a sequence of          *)
(*    one-character strings.                                               *)
(***************************************************************************)
EXTENDS Integers, Sequences, FiniteSets, TLC

VARIABLES
    unit,              \* which function is applied on its own ("none": the engine runs)
    unit_in,           \* the arguments of that function
    unit_done,         \* TRUE once the function has been applied
    unit_out,          \* its return value
    cache_use_diskcache, \* CacheManager._use_diskcache: diskcache store, else JSON files
    gemini_available,  \* LLMEngine.gemini is set and is_available()
    cache_store,       \* the entries of the cache store
    clock,             \* the time, in ticks
    log,               \* the last two analyze calls, oldest first
    n_calls            \* the number of analyze calls made

unit_vars == <<unit, unit_in, unit_done, unit_out>>
engine_vars == <<cache_use_diskcache, gemini_available, cache_store, clock, log, n_calls>>
vars == <<unit_vars, engine_vars>>

\* the engine after construction, for the specifications that apply one function
EngineIdle ==
    /\ cache_use_diskcache = TRUE
    /\ gemini_available = FALSE
    /\ cache_store = {}
    /\ clock = 0
    /\ log = <<>>
    /\ n_calls = 0

(***************************************************************************)
(* Generic helpers                                                         *)
(***************************************************************************)

\* dict.get(k, d)
Get(r, k, d) == IF k \in DOMAIN r THEN r[k] ELSE d

\* all sequences over S of length 0..n
SeqsUpTo(S, n) == UNION { [1..k -> S] : k \in 0..n }

Range(s) == { s[i] : i \in 1..Len(s) }

\* position of key k in the ordered dict d, 0 when absent
DictIndex(d, k) ==
    IF \E i \in 1..Len(d) : d[i].k = k
    THEN CHOOSE i \in 1..Len(d) : d[i].k = k
    ELSE 0

\* d[k] = d.get(k, 0) + v, keeping dict insertion order
DictAdd(d, k, v) ==
    LET i == DictIndex(d, k) IN
    IF i = 0 THEN Append(d, [k |-> k, v |-> v])
    ELSE [d EXCEPT ![i] = [k |-> k, v |-> d[i].v + v]]

\* sum of f over a sequence of integers
SeqSum(s) ==
    LET f[i \in 0..Len(s)] == IF i = 0 THEN 0 ELSE f[i - 1] + s[i]
    IN f[Len(s)]

(***************************************************************************)
(* Usage records                                                           *)
(***************************************************************************)

\* float(r.get("cost", 0.0) or 0.0)
cost_of(r) == Get(r, "cost", 0)

(***************************************************************************)
(* LLMEngine._detect_anomalies                                             *)
(***************************************************************************)

\* mutant: the score threshold is inclusive
is_explicit_anomaly_inclusive(r) ==
    Get(r, "anomaly_flag", FALSE) \/ Get(r, "anomaly_score", 0) >= 8

\* r.get("anomaly_flag") or r.get("anomaly_score", 0) > 0.8
is_explicit_anomaly(r) ==
    Get(r, "anomaly_flag", FALSE) \/ Get(r, "anomaly_score", 0) > 8

\* r.get("service_name") or "unknown"
detect_service_key(r) ==
    IF Get(r, "service_name", "") = "" THEN "unknown" ELSE r.service_name

\* the by_service dict of the statistical pass
detect_by_service(dataset) ==
    LET f[i \in 0..Len(dataset)] ==
            IF i = 0 THEN <<>>
            ELSE DictAdd(f[i - 1], detect_service_key(dataset[i]), cost_of(dataset[i]))
    IN f[Len(dataset)]

\* mutant: the threshold is mean + pstdev, the factor 3 forgotten
exceeds_threshold_one_sigma(tot, by_service, rounds_below) ==
    LET n == Len(by_service)
        S == SeqSum([i \in 1..n |-> by_service[i].v])
        Q == SeqSum([i \in 1..n |-> by_service[i].v * by_service[i].v])
        varnum == n * Q - S * S
    IN  IF (n <= 1) \/ (varnum = 0)
        THEN n * tot > 2 * S
        ELSE /\ n * tot - S > 0
             /\ (n * tot - S) * (n * tot - S) > varnum

\* n without its factors of two: x / n is a binary fraction exactly when
\* OddPart(n) divides x
OddPart(n) == CHOOSE m \in 1..n : n % m = 0 /\ m % 2 = 1 /\ \A k \in 1..n : (n % k = 0 /\ k % 2 = 1) => k <= m

\* tot > threshold, threshold = mean + 3 * pstdev if pstdev else mean * 2.
\* With n totals, sum S and sum of squares Q: mean = S / n and
\* pstdev = sqrt(n * Q - S * S) / n, so the comparison is made on integers.
\* The code compares floating-point numbers. For whole-dollar totals the
\* outcome is that of the exact comparison, except when tot lies exactly on
\* mean + 3 * pstdev and mean or pstdev is no binary fraction: then the rounding
\* of mean_, std_, 3 * std_ and the sum decides, and it depends on the values
\* and on the Python version (statistics.pstdev takes the square root of the
\* exact variance from 3.11 on, of the rounded variance before). rounds_below
\* tells whether the computed threshold comes out below the exact one.
exceeds_threshold(tot, by_service, rounds_below) ==
    LET n == Len(by_service)
        S == SeqSum([i \in 1..n |-> by_service[i].v])
        Q == SeqSum([i \in 1..n |-> by_service[i].v * by_service[i].v])
        varnum == n * Q - S * S
        std_is_zero == (n <= 1) \/ (varnum = 0)
        d == n * tot - S
        on_threshold == d > 0 /\ d * d = 9 * varnum
        representable == S % OddPart(n) = 0 /\ (d \div 3) % OddPart(n) = 0
    IN  IF std_is_zero
        THEN n * tot > 2 * S
        ELSE IF on_threshold /\ ~representable
        THEN rounds_below
        ELSE d > 0 /\ d * d > 9 * varnum

synthesized(svc, tot) ==
    [service_name |-> svc, cost |-> tot, reason |-> "service_total_exceeds_threshold"]

detect_anomalies(dataset, rounds_below) ==
    LET explicit == SelectSeq(dataset, is_explicit_anomaly)
        by_service == detect_by_service(dataset)
        flagged == SelectSeq(by_service, LAMBDA e : exceeds_threshold(e.v, by_service, rounds_below))
        anomalies == explicit \o [i \in 1..Len(flagged) |-> synthesized(flagged[i].k, flagged[i].v)]
    IN  [anomalies |-> anomalies, anomaly_summary |-> [count |-> Len(anomalies)]]

(***************************************************************************)
(* Inputs of the anomaly detector                                          *)
(***************************************************************************)

MaxDetectRecords == 2

DetectServices == {"EC2"}
DetectCosts == {-5, 10}

\* records with and without service_name, anomaly_flag and anomaly_score
DetectRecords ==
    LET base == { [cost |-> c] : c \in DetectCosts }
        withSvc == base \cup { [service_name |-> s, cost |-> r.cost] : s \in DetectServices, r \in base }
        withFlag == withSvc \cup { r @@ [anomaly_flag |-> b] : r \in withSvc, b \in BOOLEAN }
    IN  withFlag \cup { r @@ [anomaly_score |-> x] : r \in withFlag, x \in {8, 9} }

\* one record per service, with the given totals
OnePerService(names, totals) ==
    [i \in 1..Len(totals) |-> [service_name |-> names[i], cost |-> totals[i]]]

ServiceNames ==
    <<"svc01", "svc02", "svc03", "svc04", "svc05", "svc06",
      "svc07", "svc08", "svc09", "svc10", "svc11">>

\* services costing [10, 10, 10, 10, 1000] dollars
RegressionDataset == OnePerService(ServiceNames, <<10, 10, 10, 10, 1000>>)

\* ten services, nine of them free: the total of the tenth is mean + 3 sigma
TieDataset ==
    OnePerService(ServiceNames, <<0, 0, 0, 0, 0, 0, 0, 0, 0, 1>>)

\* eleven services, ten of them cheap: the one outlier exceeds mean + 3 sigma
OutlierDataset ==
    OnePerService(ServiceNames, <<1, 1, 1, 1, 1, 1, 1, 1, 1, 1, 1000>>)

DetectDatasets ==
    SeqsUpTo(DetectRecords, MaxDetectRecords)
        \cup {RegressionDataset, OutlierDataset, <<[service_name |-> "", cost |-> -5]>>}

\* the rounding matters for the dataset with a total on the threshold only
DetectInputs ==
    { [dataset |-> d, rounds_below |-> FALSE] : d \in DetectDatasets }
        \cup { [dataset |-> TieDataset, rounds_below |-> b] : b \in BOOLEAN }

InitDetect ==
    /\ EngineIdle
    /\ unit = "detect_anomalies"
    /\ unit_in \in DetectInputs
    /\ unit_done = FALSE
    /\ unit_out = <<>>

ApplyDetect ==
    /\ unit = "detect_anomalies"
    /\ ~unit_done
    /\ unit_done' = TRUE
    /\ unit_out' = detect_anomalies(unit_in.dataset, unit_in.rounds_below)
    /\ UNCHANGED <<unit, unit_in, engine_vars>>

SpecDetect == InitDetect /\ [][ApplyDetect]_vars

DetectDone == unit = "detect_anomalies" /\ unit_done

\* an entry of the anomaly list that was synthesized at the service level
IsSynthesized(e) == "reason" \in DOMAIN e

\* the explicit rule as the specification states it
HasExplicitFlag(r) == "anomaly_flag" \in DOMAIN r /\ r.anomaly_flag = TRUE
ScoreAbove08(r) == "anomaly_score" \in DOMAIN r /\ r.anomaly_score > 8

\* C5: every record with anomaly_score > 0.8 or anomaly_flag true is an entry of
\* the detector's anomaly list, verbatim; a record with score <= 0.8 and no flag
\* is not an entry of it, and every entry that is not such a record is a
\* synthesized service-level entry.
C5_ExplicitRule ==
    DetectDone =>
        LET ds == unit_in.dataset
            out == unit_out.anomalies
        IN  /\ \A i \in 1..Len(ds) :
                 (ScoreAbove08(ds[i]) \/ HasExplicitFlag(ds[i]))
                     <=> (\E j \in 1..Len(out) : out[j] = ds[i])
            /\ \A j \in 1..Len(out) :
                 IsSynthesized(out[j]) \/ (\E i \in 1..Len(ds) : ds[i] = out[j])

\* a record with score 0.9 was reported and one with score 0.8 was left out
C5_Witness ==
    /\ DetectDone
    /\ \E i, k \in 1..Len(unit_in.dataset) :
         /\ Get(unit_in.dataset[i], "anomaly_score", 0) = 9
         /\ ~HasExplicitFlag(unit_in.dataset[i])
         /\ Get(unit_in.dataset[k], "anomaly_score", 0) = 8
         /\ ~HasExplicitFlag(unit_in.dataset[k])
         /\ unit_out.anomalies = <<unit_in.dataset[i]>>

\* the statistical rule as the specification states it: per-service totals,
\* population mean mu and population standard deviation sigma over the services
SpecServiceOf(r) ==
    IF "service_name" \in DOMAIN r /\ r.service_name # "" THEN r.service_name ELSE "unknown"
SpecServices(ds) == { SpecServiceOf(ds[i]) : i \in 1..Len(ds) }
SpecTotal(ds, s) ==
    SeqSum([i \in 1..Len(ds) |-> IF SpecServiceOf(ds[i]) = s THEN cost_of(ds[i]) ELSE 0])
\* sum of g over the services, each counted at its first record
SpecSumOverServices(ds, g(_)) ==
    SeqSum([i \in 1..Len(ds) |->
        IF \A j \in 1..(i - 1) : SpecServiceOf(ds[j]) # SpecServiceOf(ds[i])
        THEN g(SpecServiceOf(ds[i])) ELSE 0])
\* n * (total - mu), and n^3 * sigma^2 = sum of the squared n * (total - mu)
SpecDev(ds, s) ==
    Cardinality(SpecServices(ds)) * SpecTotal(ds, s)
        - SpecSumOverServices(ds, LAMBDA t : SpecTotal(ds, t))
SpecSumSqDev(ds) == SpecSumOverServices(ds, LAMBDA t : SpecDev(ds, t) * SpecDev(ds, t))
SpecSigmaPositive(ds) == Cardinality(SpecServices(ds)) > 1 /\ SpecSumSqDev(ds) > 0
\* total > mu + 3 sigma  (sigma > 0),  total > 2 mu  (otherwise)
SpecExceeds(ds, s) ==
    IF SpecSigmaPositive(ds)
    THEN /\ SpecDev(ds, s) > 0
         /\ Cardinality(SpecServices(ds)) * SpecDev(ds, s) * SpecDev(ds, s) > 9 * SpecSumSqDev(ds)
    ELSE SpecDev(ds, s) > SpecSumOverServices(ds, LAMBDA t : SpecTotal(ds, t))

\* C6: the detector appends the synthesized entry of a service exactly when the
\* service's total is above mu + 3 sigma (sigma > 0) or above 2 mu (sigma = 0 or
\* a single service); no other synthesized entry exists, none for an empty
\* dataset, and none for the service totals [10, 10, 10, 10, 1000].
C6_StatisticalRule ==
    DetectDone =>
        LET ds == unit_in.dataset
            out == unit_out.anomalies
        IN  /\ \A s \in SpecServices(ds) :
                 SpecExceeds(ds, s)
                     <=> (\E j \in 1..Len(out) : out[j] = synthesized(s, SpecTotal(ds, s)))
            /\ \A j \in 1..Len(out) :
                 IsSynthesized(out[j]) =>
                     /\ out[j].service_name \in SpecServices(ds)
                     /\ out[j] = synthesized(out[j].service_name, SpecTotal(ds, out[j].service_name))
            /\ ds = RegressionDataset => \A j \in 1..Len(out) : ~IsSynthesized(out[j])

\* an outlier among eleven services was reported by the 3-sigma branch
C6_Witness ==
    /\ DetectDone
    /\ SpecSigmaPositive(unit_in.dataset)
    /\ \E j \in 1..Len(unit_out.anomalies) : IsSynthesized(unit_out.anomalies[j])

\* a service with a negative total was reported by the 2-mu branch
C6_WitnessTwoMu ==
    /\ DetectDone
    /\ ~SpecSigmaPositive(unit_in.dataset)
    /\ \E j \in 1..Len(unit_out.anomalies) : IsSynthesized(unit_out.anomalies[j])

(***************************************************************************)
(* Text: a Python str is a sequence of one-character strings               *)
(***************************************************************************)

\* code points of the characters that dates are written with
Ord(c) ==
    CASE c = "-" -> 45
      [] c = "0" -> 48 [] c = "1" -> 49 [] c = "2" -> 50 [] c = "3" -> 51
      [] c = "4" -> 52 [] c = "5" -> 53 [] c = "6" -> 54 [] c = "7" -> 55
      [] c = "8" -> 56 [] c = "9" -> 57

\* a < b on Python strings: lexicographic by code point
StrLess(a, b) ==
    \/ /\ Len(a) < Len(b)
       /\ \A i \in 1..Len(a) : a[i] = b[i]
    \/ \E i \in 1..Len(a) :
          /\ i <= Len(b)
          /\ \A j \in 1..(i - 1) : a[j] = b[j]
          /\ a[i] # b[i]
          /\ Ord(a[i]) < Ord(b[i])

\* sorted(d.items()) of an ordered dict with string keys (keys are unique)
SortedItems(d) ==
    [i \in 1..Len(d) |->
        CHOOSE e \in Range(d) :
            Cardinality({ f \in Range(d) : StrLess(f.k, e.k) }) = i - 1]

\* round(num / den) to the nearest integer, ties to the even one (den > 0)
RoundHalfEven(num, den) ==
    LET q == num \div den
        r == num - q * den
    IN  IF 2 * r < den THEN q
        ELSE IF 2 * r > den THEN q + 1
        ELSE IF q % 2 = 0 THEN q ELSE q + 1

Min(a, b) == IF a < b THEN a ELSE b

(***************************************************************************)
(* LLMEngine._forecast_costs                                               *)
(***************************************************************************)

\* r.get("usage_date") or r.get("date")
forecast_date_key(r) ==
    IF Get(r, "usage_date", <<>>) # <<>> THEN r.usage_date ELSE Get(r, "date", <<>>)

\* the by_date dict: records without a date are skipped
forecast_by_date(dataset) ==
    LET f[i \in 0..Len(dataset)] ==
            IF i = 0 THEN <<>>
            ELSE IF forecast_date_key(dataset[i]) = <<>> THEN f[i - 1]
            ELSE DictAdd(f[i - 1], forecast_date_key(dataset[i]), cost_of(dataset[i]))
    IN f[Len(dataset)]

\* mutant: the average is taken over the first min(7, n) dates
moving_average_first_dates(dates, horizon_days) ==
    LET k == Min(7, Len(dates))
        S == SeqSum([i \in 1..k |-> dates[i].v])
    IN  [i \in 1..horizon_days |-> RoundHalfEven(S * (200 + (i - 1)), 2 * k)]

\* mutant: the extrapolation stops one day short of the horizon
moving_average_one_short(dates, horizon_days) ==
    LET k == Min(7, Len(dates))
        S == SeqSum([i \in 1..k |-> dates[Len(dates) - k + i].v])
    IN  [i \in 1..(horizon_days - 1) |-> RoundHalfEven(S * (200 + (i - 1)), 2 * k)]

\* avg = sum(v for _, v in dates[-min(7, len(dates)):]) / min(7, len(dates))
\* preds = [round(avg * (1 + 0.005 * i), 2) for i in range(horizon_days)]
\* in cents: 100 * (S / k) * (200 + i) / 200 = S * (200 + i) / (2 * k)
moving_average(dates, horizon_days) ==
    LET k == Min(7, Len(dates))
        S == SeqSum([i \in 1..k |-> dates[Len(dates) - k + i].v])
    IN  [i \in 1..horizon_days |-> RoundHalfEven(S * (200 + (i - 1)), 2 * k)]

\* prophet is what the Prophet library does on this call: it raises, or predicts
\* yhat (already rounded, in cents) for each of the horizon_days days
forecast_costs(dataset, horizon_days, PROPHET_AVAILABLE, prophet) ==
    LET by_date == forecast_by_date(dataset)
        dates == SortedItems(by_date)
        meta == [method |-> IF PROPHET_AVAILABLE THEN "prophet" ELSE "moving_average"]
    IN  IF by_date = <<>>
        THEN [forecast |-> [predicted_costs |-> <<>>], forecast_meta |-> [method |-> "none"]]
        ELSE IF PROPHET_AVAILABLE /\ Len(dates) >= 3 /\ ~prophet.raises
        THEN [forecast |-> [predicted_costs |-> [i \in 1..horizon_days |-> prophet.yhat]],
              forecast_meta |-> meta]
        ELSE [forecast |-> [predicted_costs |-> moving_average(dates, horizon_days)],
              forecast_meta |-> meta]

(***************************************************************************)
(* Inputs of the forecast engine                                           *)
(***************************************************************************)

MaxForecastRecords == 2
MaxDates == 9
MaxHorizon == 3

Digit(d) ==
    CASE d = 0 -> "0" [] d = 1 -> "1" [] d = 2 -> "2" [] d = 3 -> "3" [] d = 4 -> "4"
      [] d = 5 -> "5" [] d = 6 -> "6" [] d = 7 -> "7" [] d = 8 -> "8" [] d = 9 -> "9"

\* the ISO date string "2024-01-dd"
IsoDay(dd) ==
    <<"2", "0", "2", "4", "-", "0", "1", "-">> \o <<Digit(dd \div 10), Digit(dd % 10)>>

ForecastCosts == {3, 10}

ForecastRecords ==
    { [cost |-> c] : c \in ForecastCosts }
        \cup { [usage_date |-> IsoDay(d), cost |-> c] : d \in {1, 2, 10}, c \in ForecastCosts }
        \cup { [date |-> IsoDay(d), cost |-> c] : d \in {2}, c \in ForecastCosts }
        \cup { [usage_date |-> <<>>, date |-> IsoDay(3), cost |-> 10] }

\* one record per day n, n-1, ..., 1 (latest first); day p costs 4, the others 1
DailySeries(n, p) ==
    [i \in 1..n |-> [usage_date |-> IsoDay(n + 1 - i), cost |-> IF n + 1 - i = p THEN 4 ELSE 1]]

ForecastDatasets ==
    SeqsUpTo(ForecastRecords, MaxForecastRecords)
        \cup { DailySeries(n, p) : n \in 3..MaxDates, p \in 1..3 }

ProphetOutcomes == {[raises |-> TRUE, yhat |-> 0], [raises |-> FALSE, yhat |-> 1250]}

InitForecast ==
    /\ EngineIdle
    /\ unit = "forecast_costs"
    /\ unit_in \in [dataset : ForecastDatasets,
                    horizon_days : 0..MaxHorizon,
                    PROPHET_AVAILABLE : BOOLEAN,
                    prophet : ProphetOutcomes]
    /\ unit_done = FALSE
    /\ unit_out = <<>>

ApplyForecast ==
    /\ unit = "forecast_costs"
    /\ ~unit_done
    /\ unit_done' = TRUE
    /\ unit_out' = forecast_costs(unit_in.dataset, unit_in.horizon_days,
                                  unit_in.PROPHET_AVAILABLE, unit_in.prophet)
    /\ UNCHANGED <<unit, unit_in, engine_vars>>

SpecForecast == InitForecast /\ [][ApplyForecast]_vars

ForecastDone == unit = "forecast_costs" /\ unit_done

\* the calendar reading of a record's date: the day number of "2024-01-dd"
DigitValue(c) == CHOOSE d \in 0..9 : Digit(d) = c
SpecHasDate(r) ==
    \/ "usage_date" \in DOMAIN r /\ r.usage_date # <<>>
    \/ "date" \in DOMAIN r /\ r.date # <<>>
SpecDateText(r) ==
    IF "usage_date" \in DOMAIN r /\ r.usage_date # <<>> THEN r.usage_date ELSE r.date
SpecDayOf(r) == 10 * DigitValue(SpecDateText(r)[9]) + DigitValue(SpecDateText(r)[10])
SpecDays(ds) == { SpecDayOf(ds[i]) : i \in { j \in 1..Len(ds) : SpecHasDate(ds[j]) } }
SpecDayTotal(ds, day) ==
    SeqSum([i \in 1..Len(ds) |->
        IF SpecHasDate(ds[i]) /\ SpecDayOf(ds[i]) = day THEN cost_of(ds[i]) ELSE 0])
\* the last min(7, n) days of the series
SpecLastDays(ds) ==
    { d \in SpecDays(ds) :
        Cardinality({ e \in SpecDays(ds) : e > d }) < Min(7, Cardinality(SpecDays(ds))) }
SpecLastDaysSum(ds) ==
    SeqSum([d \in 1..31 |-> IF d \in SpecLastDays(ds) THEN SpecDayTotal(ds, d) ELSE 0])

\* the regression produced the predictions
SpecRegressionRan(in) ==
    /\ in.PROPHET_AVAILABLE
    /\ Cardinality(SpecDays(in.dataset)) >= 3
    /\ ~in.prophet.raises
SpecMovingAverageRan(in) == SpecDays(in.dataset) # {} /\ ~SpecRegressionRan(in)

Abs(x) == IF x < 0 THEN -x ELSE x

\* C7 (as claimed): with fewer than 3 distinct usage dates the method is never
\* the regression method; it is "moving_average", or "none" without dated records.
C7_NoRegressionUnderThreeDates ==
    (ForecastDone /\ Cardinality(SpecDays(unit_in.dataset)) < 3) =>
        /\ unit_out.forecast_meta.method # "prophet"
        /\ unit_out.forecast_meta.method =
              (IF SpecDays(unit_in.dataset) = {} THEN "none" ELSE "moving_average")

\* C8: when the moving-average path produces the forecast, predicted_costs has
\* horizon entries and entry i is A * (1 + 0.005 * i) rounded to the cent, A being
\* the mean of the per-date totals of the last min(7, n) dates: with k such
\* dates summing to S dollars, |cents * 2k - S * (200 + i)| <= k.
C8_MovingAverage ==
    (ForecastDone /\ SpecMovingAverageRan(unit_in)) =>
        LET ds == unit_in.dataset
            k == Cardinality(SpecLastDays(ds))
            S == SpecLastDaysSum(ds)
            preds == unit_out.forecast.predicted_costs
        IN  /\ Len(preds) = unit_in.horizon_days
            /\ \A i \in 0..(unit_in.horizon_days - 1) :
                 Abs(preds[i + 1] * 2 * k - S * (200 + i)) <= k

\* more than 7 dates, the oldest costing otherwise than the rest, horizon >= 3
C8_Witness ==
    /\ ForecastDone
    /\ SpecMovingAverageRan(unit_in)
    /\ Cardinality(SpecDays(unit_in.dataset)) > 7
    /\ SpecDayTotal(unit_in.dataset, 1) = 4
    /\ unit_in.horizon_days >= 3
    /\ unit_out.forecast.predicted_costs[3] # unit_out.forecast.predicted_costs[1]

(***************************************************************************)
(* str.lower, str.strip, substring test                                    *)
(***************************************************************************)

\* c.lower() for one character
LowerChar(c) ==
    CASE c = "A" -> "a"
      [] c = "B" -> "b"
      [] c = "C" -> "c"
      [] c = "D" -> "d"
      [] c = "E" -> "e"
      [] c = "F" -> "f"
      [] c = "G" -> "g"
      [] c = "H" -> "h"
      [] c = "I" -> "i"
      [] c = "J" -> "j"
      [] c = "K" -> "k"
      [] c = "L" -> "l"
      [] c = "M" -> "m"
      [] c = "N" -> "n"
      [] c = "O" -> "o"
      [] c = "P" -> "p"
      [] c = "Q" -> "q"
      [] c = "R" -> "r"
      [] c = "S" -> "s"
      [] c = "T" -> "t"
      [] c = "U" -> "u"
      [] c = "V" -> "v"
      [] c = "W" -> "w"
      [] c = "X" -> "x"
      [] c = "Y" -> "y"
      [] c = "Z" -> "z"
      [] OTHER -> c

\* s.lower()
Lower(s) == [i \in 1..Len(s) |-> LowerChar(s[i])]

\* k in q
Contains(q, k) ==
    \E i \in 0..(Len(q) - Len(k)) : \A j \in 1..Len(k) : q[i + j] = k[j]

\* any(k in q for k in keywords)
ContainsAny(q, keywords) == \E k \in keywords : Contains(q, k)

(***************************************************************************)
(* LLMEngine._route_dashboard                                              *)
(***************************************************************************)

FinanceKeywords == {<<"c", "o", "s", "t">>, <<"b", "u", "d", "g", "e", "t">>, <<"f", "i", "n", "a", "n", "c", "e">>}
ItKeywords == {<<"a", "n", "o", "m", "a", "l", "y">>, <<"u", "s", "a", "g", "e">>, <<"c", "p", "u">>}
MspKeywords == {<<"t", "e", "n", "a", "n", "t">>, <<"c", "l", "i", "e", "n", "t">>, <<"m", "s", "p">>}

\* mutant: the it keywords are tested before the finance keywords
route_dashboard_it_first(query) ==
    LET q == Lower(query) IN
    IF ContainsAny(q, ItKeywords) THEN "it"
    ELSE IF ContainsAny(q, FinanceKeywords) THEN "finance"
    ELSE IF ContainsAny(q, MspKeywords) THEN "msp"
    ELSE "finance"

route_dashboard(query) ==
    LET q == Lower(query) IN
    IF ContainsAny(q, FinanceKeywords) THEN "finance"
    ELSE IF ContainsAny(q, ItKeywords) THEN "it"
    ELSE IF ContainsAny(q, MspKeywords) THEN "msp"
    ELSE "finance"

(***************************************************************************)
(* Inputs of the dashboard router                                          *)
(***************************************************************************)

MaxQueryParts == 2

QueryFragments ==
    {<<"c", "o", "s", "t">>,
     <<"B", "U", "D", "G", "E", "T">>,
     <<"F", "i", "n", "a", "n", "c", "e">>,
     <<"a", "n", "o", "m", "a", "l", "y">>,
     <<"U", "s", "a", "g", "e">>,
     <<"C", "P", "U">>,
     <<"t", "e", "n", "a", "n", "t">>,
     <<"c", "L", "i", "e", "n", "t">>,
     <<"M", "S", "P">>,
     <<"c", "o">>,
     <<"s", "t">>,
     <<" ">>,
     <<"w", "h", "y">>}

Flatten(parts) ==
    LET f[i \in 0..Len(parts)] == IF i = 0 THEN <<>> ELSE f[i - 1] \o parts[i]
    IN f[Len(parts)]

\* "show me the budget and anomaly report"
BudgetAnomalyQuery ==
    <<"s", "h", "o", "w", " ", "m", "e", " ", "t", "h", "e", " ", "b", "u", "d", "g", "e", "t", " ", "a", "n", "d", " ", "a", "n", "o", "m", "a", "l", "y", " ", "r", "e", "p", "o", "r", "t">>

Queries ==
    { Flatten(parts) : parts \in SeqsUpTo(QueryFragments, MaxQueryParts) } \cup {BudgetAnomalyQuery}

InitRoute ==
    /\ EngineIdle
    /\ unit = "route_dashboard"
    /\ unit_in \in [query : Queries]
    /\ unit_done = FALSE
    /\ unit_out = <<>>

ApplyRoute ==
    /\ unit = "route_dashboard"
    /\ ~unit_done
    /\ unit_done' = TRUE
    /\ unit_out' = route_dashboard(unit_in.query)
    /\ UNCHANGED <<unit, unit_in, engine_vars>>

SpecRoute == InitRoute /\ [][ApplyRoute]_vars

RouteDone == unit = "route_dashboard" /\ unit_done

\* the classification as the specification states it: a keyword occurs in the
\* query when some window of the query spells it, letter case ignored
SpecSameLetter(c, d) == c = d \/ LowerChar(c) = d \/ LowerChar(d) = c
SpecOccurs(query, k) ==
    \E a \in 1..Len(query) :
        /\ a + Len(k) - 1 <= Len(query)
        /\ LET w == SubSeq(query, a, a + Len(k) - 1)
           IN  \A j \in 1..Len(k) : SpecSameLetter(w[j], k[j])
SpecMatches(query, keywords) == \E k \in keywords : SpecOccurs(query, k)
SpecDashboard(query) ==
    CASE SpecMatches(query, FinanceKeywords) -> "finance"
      [] ~SpecMatches(query, FinanceKeywords) /\ SpecMatches(query, ItKeywords) -> "it"
      [] /\ ~SpecMatches(query, FinanceKeywords)
         /\ ~SpecMatches(query, ItKeywords)
         /\ SpecMatches(query, MspKeywords) -> "msp"
      [] OTHER -> "finance"

\* C9: the router returns finance, it or msp: finance if the query contains one
\* of cost/budget/finance in any letter case, else it for anomaly/usage/cpu, else
\* msp for tenant/client/msp, else finance; "show me the budget and anomaly
\* report" resolves to finance.
C9_Routing ==
    RouteDone =>
        /\ unit_out \in {"finance", "it", "msp"}
        /\ unit_out = SpecDashboard(unit_in.query)
        /\ unit_in.query = BudgetAnomalyQuery => unit_out = "finance"

\* a query matching both the finance and the it keywords was routed to finance
C9_Witness ==
    /\ RouteDone
    /\ SpecMatches(unit_in.query, FinanceKeywords)
    /\ SpecMatches(unit_in.query, ItKeywords)
    /\ unit_in.query # Lower(unit_in.query)
    /\ unit_out = "finance"

(***************************************************************************)
(* LLMEngine._tune_recommendations                                         *)
(*                                                                         *)
(* An entry of the raw list is [str |-> text] for a Python str and         *)
(* [dict |-> d] for a Python dict d.                                       *)
(***************************************************************************)

IsSpace(c) == c \in {" ", "\t", "\n"}

\* s.strip()
Strip(s) ==
    IF \A i \in 1..Len(s) : IsSpace(s[i]) THEN <<>>
    ELSE LET a == CHOOSE i \in 1..Len(s) : ~IsSpace(s[i]) /\ \A j \in 1..(i - 1) : IsSpace(s[j])
             b == CHOOSE i \in 1..Len(s) : ~IsSpace(s[i]) /\ \A j \in (i + 1)..Len(s) : IsSpace(s[j])
         IN  SubSeq(s, a, b)

\* str(rec) of a dict that holds only a title
py_str(d) ==
    <<"{", "'", "t", "i", "t", "l", "e", "'", ":", " ", "'">> \o d.title \o <<"'", "}">>

\* rec.get('recommendation') or rec.get('action') or rec.get('text') or str(rec)
rec_text(rec) ==
    IF "dict" \in DOMAIN rec
    THEN IF Get(rec.dict, "recommendation", <<>>) # <<>> THEN rec.dict.recommendation
         ELSE IF Get(rec.dict, "action", <<>>) # <<>> THEN rec.dict.action
         ELSE IF Get(rec.dict, "text", <<>>) # <<>> THEN rec.dict.text
         ELSE py_str(rec.dict)
    ELSE rec.str

\* mutant: duplicates are recognised by exact text
dedup_key_exact(text) == text

\* rec_lower = rec_text.lower().strip()
dedup_key(text) == Strip(Lower(text))

\* the loop over recs: processed_recs, with seen the keys of its entries
processed_recs(base_recs) ==
    LET f[i \in 0..Len(base_recs)] ==
            IF i = 0 THEN <<>>
            ELSE LET text == rec_text(base_recs[i])
                 IN  IF \E j \in 1..Len(f[i - 1]) : dedup_key(f[i - 1][j]) = dedup_key(text)
                     THEN f[i - 1]
                     ELSE Append(f[i - 1], text)
    IN f[Len(base_recs)]

FinanceGuidance == <<"S", "e", "t", " ", "A", "W", "S", " ", "B", "u", "d", "g", "e", "t", " ", "a", "l", "e", "r", "t", "s", " ", "a", "t", " ", "8", "0", "%", " ", "a", "n", "d", " ", "1", "0", "0", "%", ".">>
ItGuidance == <<"R", "e", "v", "i", "e", "w", " ", "h", "i", "g", "h", " ", "C", "P", "U", " ", "E", "C", "2", " ", "i", "n", "s", "t", "a", "n", "c", "e", "s", ".">>
MspGuidance == <<"P", "r", "i", "o", "r", "i", "t", "i", "z", "e", " ", "a", "n", "o", "m", "a", "l", "i", "e", "s", " ", "b", "y", " ", "t", "e", "n", "a", "n", "t", " ", "S", "L", "A", ".">>

tune_recommendations(base_recs, dashboard) ==
    processed_recs(base_recs)
        \o (IF dashboard = "finance" THEN <<FinanceGuidance>> ELSE <<>>)
        \o (IF dashboard = "it" THEN <<ItGuidance>> ELSE <<>>)
        \o (IF dashboard = "msp" THEN <<MspGuidance>> ELSE <<>>)

(***************************************************************************)
(* Inputs of the recommendation tuner                                      *)
(***************************************************************************)

MaxRecs == 3

ResizeEC2 == <<"R", "e", "s", "i", "z", "e", " ", "E", "C", "2">>
ResizeEc2Lower == <<"r", "e", "s", "i", "z", "e", " ", "e", "c", "2">>
ResizeEC2Padded == <<"R", "e", "s", "i", "z", "e", " ", "E", "C", "2", " ">>
StopIdle == <<"S", "t", "o", "p", " ", "i", "d", "l", "e">>

RawRecs ==
    { [str |-> t] : t \in {ResizeEC2, ResizeEc2Lower, ResizeEC2Padded, StopIdle, FinanceGuidance} }
        \cup { [dict |-> [action |-> ResizeEc2Lower]],
               [dict |-> [recommendation |-> StopIdle, action |-> ResizeEC2]],
               [dict |-> [recommendation |-> <<>>, text |-> ResizeEC2]],
               [dict |-> [title |-> StopIdle]] }

Dashboards == {"finance", "it", "msp"}

InitTune ==
    /\ EngineIdle
    /\ unit = "tune_recommendations"
    /\ unit_in \in [base_recs : SeqsUpTo(RawRecs, MaxRecs), dashboard : Dashboards]
    /\ unit_done = FALSE
    /\ unit_out = <<>>

ApplyTune ==
    /\ unit = "tune_recommendations"
    /\ ~unit_done
    /\ unit_done' = TRUE
    /\ unit_out' = tune_recommendations(unit_in.base_recs, unit_in.dashboard)
    /\ UNCHANGED <<unit, unit_in, engine_vars>>

SpecTune == InitTune /\ [][ApplyTune]_vars

TuneDone == unit = "tune_recommendations" /\ unit_done

SpecGuidance(dashboard) ==
    CASE dashboard = "finance" -> FinanceGuidance
      [] dashboard = "it" -> ItGuidance
      [] dashboard = "msp" -> MspGuidance

\* two texts differ at most in letter case
SpecSameIgnoringCase(a, b) ==
    Len(a) = Len(b) /\ \A i \in 1..Len(a) : SpecSameLetter(a[i], b[i])

\* a without its leading and trailing white space
SpecTrimmed(a) ==
    LET inner == { i \in 1..Len(a) : a[i] \notin {" ", "\t", "\n"} }
    IN  IF inner = {} THEN <<>>
        ELSE SubSeq(a, CHOOSE i \in inner : \A j \in inner : i <= j,
                       CHOOSE i \in inner : \A j \in inner : j <= i)

\* two texts differ at most in letter case and surrounding white space
SpecSameIgnoringCaseAndPadding(a, b) ==
    SpecSameIgnoringCase(SpecTrimmed(a), SpecTrimmed(b))

\* the texts of the entries that no earlier entry duplicates, in input order
SpecFirstSeen(texts, Same(_, _)) ==
    LET keep == { i \in 1..Len(texts) : \A j \in 1..(i - 1) : ~Same(texts[j], texts[i]) }
        nth(n) == CHOOSE i \in keep : Cardinality({ j \in keep : j < i }) = n - 1
    IN  [n \in 1..Cardinality(keep) |-> texts[nth(n)]]

SpecTexts(base_recs) == [i \in 1..Len(base_recs) |-> rec_text(base_recs[i])]

\* C10 (as claimed): the output is the entries' texts with case-insensitive
\* duplicates removed, first-seen order kept, followed by the one static guidance
\* string of the dashboard.
C10_DedupCaseInsensitive ==
    TuneDone =>
        unit_out = SpecFirstSeen(SpecTexts(unit_in.base_recs), SpecSameIgnoringCase)
                       \o <<SpecGuidance(unit_in.dashboard)>>

\* C10 (amended): the output is the entries' texts with the duplicates removed
\* that differ at most in letter case and leading or trailing white space,
\* first-seen order kept, followed by the one static guidance string of the
\* dashboard; ["Resize EC2", "resize ec2", "Resize EC2"] yields one entry plus it.
C10_DedupCaseAndPadding ==
    TuneDone =>
        /\ unit_out = SpecFirstSeen(SpecTexts(unit_in.base_recs), SpecSameIgnoringCaseAndPadding)
                          \o <<SpecGuidance(unit_in.dashboard)>>
        /\ unit_in.base_recs = <<[str |-> ResizeEC2], [str |-> ResizeEc2Lower], [str |-> ResizeEC2]>>
              => unit_out = <<ResizeEC2, SpecGuidance(unit_in.dashboard)>>

\* three case variants of one string were reduced to one entry plus the guidance
C10_Witness ==
    /\ TuneDone
    /\ unit_in.base_recs = <<[str |-> ResizeEC2], [str |-> ResizeEc2Lower], [str |-> ResizeEC2]>>
    /\ unit_in.dashboard = "it"
    /\ unit_out = <<ResizeEC2, ItGuidance>>

(***************************************************************************)
(* LLMEngine._dataset_summary                                              *)
(***************************************************************************)

\* r.get("service_name") or r.get("service") or "unknown"
summary_service_key(r) ==
    IF Get(r, "service_name", "") # "" THEN r.service_name
    ELSE IF Get(r, "service", "") # "" THEN r.service
    ELSE "unknown"

\* r.get("region") or "unknown"
summary_region_key(r) ==
    IF Get(r, "region", "") # "" THEN r.region ELSE "unknown"

\* mutant: a record that names no service is left out of the breakdown
summary_by_service_named_only(dataset) ==
    LET f[i \in 0..Len(dataset)] ==
            IF i = 0 THEN <<>>
            ELSE IF summary_service_key(dataset[i]) = "unknown" THEN f[i - 1]
            ELSE DictAdd(f[i - 1], summary_service_key(dataset[i]), cost_of(dataset[i]))
    IN f[Len(dataset)]

summary_by_service(dataset) ==
    LET f[i \in 0..Len(dataset)] ==
            IF i = 0 THEN <<>>
            ELSE DictAdd(f[i - 1], summary_service_key(dataset[i]), cost_of(dataset[i]))
    IN f[Len(dataset)]

summary_by_region(dataset) ==
    LET f[i \in 0..Len(dataset)] ==
            IF i = 0 THEN <<>>
            ELSE DictAdd(f[i - 1], summary_region_key(dataset[i]), cost_of(dataset[i]))
    IN f[Len(dataset)]

\* mutant: items with equal totals come out in the reverse of their dict order
sorted_by_cost_desc_ties_reversed(by_service) ==
    LET n == Len(by_service)
        rank(i) == Cardinality({ j \in 1..n : by_service[j].v > by_service[i].v })
                   + Cardinality({ j \in (i + 1)..n : by_service[j].v = by_service[i].v })
    IN  [p \in 1..n |->
            LET i == CHOOSE i \in 1..n : rank(i) = p - 1
            IN  [py_type |-> "tuple", service |-> by_service[i].k, cost |-> by_service[i].v]]

\* sorted(by_service.items(), key=lambda x: x[1], reverse=True): descending by
\* total, items with equal totals in their dict order; each item is a tuple
sorted_by_cost_desc(by_service) ==
    LET n == Len(by_service)
        rank(i) == Cardinality({ j \in 1..n : by_service[j].v > by_service[i].v })
                   + Cardinality({ j \in 1..(i - 1) : by_service[j].v = by_service[i].v })
    IN  [p \in 1..n |->
            LET i == CHOOSE i \in 1..n : rank(i) = p - 1
            IN  [py_type |-> "tuple", service |-> by_service[i].k, cost |-> by_service[i].v]]

\* [:5]
top_services(by_service) ==
    SubSeq(sorted_by_cost_desc(by_service), 1, Min(5, Len(by_service)))

dataset_summary(dataset) ==
    [total_cost_usd |-> 100 * SeqSum([i \in 1..Len(dataset) |-> cost_of(dataset[i])]),
     records |-> Len(dataset),
     service_breakdown |-> summary_by_service(dataset),
     region_breakdown |-> summary_by_region(dataset),
     top_services |-> top_services(summary_by_service(dataset)),
     dominant_intent |->
        IF \E i \in 1..Len(dataset) : Get(dataset[i], "anomaly_flag", FALSE)
        THEN "anomaly" ELSE "insight"]

(***************************************************************************)
(* LLMEngine._load_dataset, LLMEngine._load_from_s3                        *)
(*                                                                         *)
(* raw_data is [kind, records, file]: kind is "list", "dict_records" (a    *)
(* dict with a "records" key), "dict" (any other dict: records holds it),  *)
(* "s3" (a str starting with s3://), "path" (any other non-blank str) or   *)
(* "none"; file is what the file system holds at the path: "missing",      *)
(* "invalid" (not JSON), "list" or "object".  default_file is the same for *)
(* DEFAULT_DATA_PATH.                                                      *)
(***************************************************************************)

FileRecord == [service_name |-> "RDS", cost |-> 7, usage_date |-> IsoDay(1)]
FileDataset == <<FileRecord, [service_name |-> "S3", cost |-> 2, usage_date |-> IsoDay(2)]>>

\* with open(path) as f: data = json.load(f); return data if isinstance(data, list) else [data]
load_json_file(file) ==
    CASE file = "invalid" -> [raised |-> TRUE, dataset |-> <<>>]
      [] file = "list" -> [raised |-> FALSE, dataset |-> FileDataset]
      [] file = "object" -> [raised |-> FALSE, dataset |-> <<FileRecord>>]

\* the tail of _load_dataset: DEFAULT_DATA_PATH if it exists, else []
load_default(default_file) ==
    IF default_file # "missing" THEN load_json_file(default_file)
    ELSE [raised |-> FALSE, dataset |-> <<>>]

\* mutant: a file that does not parse is read as an empty dataset
load_dataset_recovering(raw_data, default_file) ==
    CASE raw_data.kind \in {"list", "dict_records", "dict"} -> [raised |-> FALSE, dataset |-> raw_data.records]
      [] raw_data.kind = "s3" -> [raised |-> FALSE, dataset |-> <<>>]
      [] raw_data.kind = "path" /\ raw_data.file \in {"list", "object"} -> load_json_file(raw_data.file)
      [] OTHER -> IF default_file \in {"list", "object"} THEN load_json_file(default_file)
                  ELSE [raised |-> FALSE, dataset |-> <<>>]

\* self.s3 is None, so _load_from_s3 returns []
load_dataset(raw_data, default_file) ==
    CASE raw_data.kind = "list" -> [raised |-> FALSE, dataset |-> raw_data.records]
      [] raw_data.kind = "dict_records" -> [raised |-> FALSE, dataset |-> raw_data.records]
      [] raw_data.kind = "dict" -> [raised |-> FALSE, dataset |-> raw_data.records]
      [] raw_data.kind = "s3" -> [raised |-> FALSE, dataset |-> <<>>]
      [] raw_data.kind = "path" /\ raw_data.file # "missing" -> load_json_file(raw_data.file)
      [] OTHER -> load_default(default_file)

(***************************************************************************)
(* sha_hash, iso_date, CacheManager                                        *)
(***************************************************************************)

\* 12-hour clock ticks per day: iso_date changes every TicksPerDay ticks, and
\* the default expire_seconds = 24 * 3600 is TicksPerDay ticks
TicksPerDay == 2

\* sha256(text).hexdigest()[:16], as an injective function of the text
sha_hash(text) == [sha256_16 |-> text]

\* datetime.utcnow().date().isoformat() at clock tick t
iso_date(t) == IsoDay(1 + (t \div TicksPerDay))

\* f"{tenant_id}__{date}__{query_id}": the text before the hash, and the hash
make_key(tenant_id, query_id, date) ==
    [text |-> tenant_id \o <<"_", "_">> \o date \o <<"_", "_">>, query_id |-> query_id]

\* key.replace(os.path.sep, "_"); the hash holds no separator
key_to_path(key) ==
    [text |-> [i \in 1..Len(key.text) |-> IF key.text[i] = "/" THEN "_" ELSE key.text[i]],
     query_id |-> key.query_id]

\* json.load(json.dump(value, default=str)): a tuple is read back as a list
json_round_trip(result) ==
    [result EXCEPT
        !.summary.top_services =
            [i \in 1..Len(@) |-> [@[i] EXCEPT !.py_type = "list"]],
        !.raw_llm =
            IF @.kind = "summary"
            THEN [@ EXCEPT !.summary.top_services =
                    [i \in 1..Len(@) |-> [@[i] EXCEPT !.py_type = "list"]]]
            ELSE @]

\* where the store keeps the entry of a key
store_slot(use_diskcache, key) == IF use_diskcache THEN key ELSE key_to_path(key)

StoreWithout(store, slot) == { e \in store : e.slot # slot }

\* mutant: the entry is written only when the key has none
cache_set_if_absent(store, use_diskcache, key, value, now, expire, fault) ==
    IF fault # "none" \/ \E e \in store : e.slot = store_slot(use_diskcache, key)
    THEN store
    ELSE StoreWithout(store, store_slot(use_diskcache, key))
            \cup {[slot |-> store_slot(use_diskcache, key), readable |-> TRUE,
                   value |-> IF use_diskcache THEN value ELSE json_round_trip(value),
                   expire_at |-> now + expire]}

\* CacheManager.set: fault is what goes wrong in the store: "none", "refused"
\* (the store or open() raises before anything is written) or "torn" (the
\* write fails part-way). The exception is swallowed.
cache_set(store, use_diskcache, key, value, now, expire, fault) ==
    LET slot == store_slot(use_diskcache, key) IN
    IF use_diskcache
    THEN IF fault # "none" THEN store
         ELSE StoreWithout(store, slot)
                \cup {[slot |-> slot, readable |-> TRUE, value |-> value, expire_at |-> now + expire]}
    ELSE IF fault = "refused" THEN store
         ELSE StoreWithout(store, slot)
                \cup {[slot |-> slot, readable |-> (fault = "none"),
                       value |-> json_round_trip(value), expire_at |-> now + expire]}

NoValue == [found |-> FALSE]

\* mutant: a failing read is not noticed and the entry found is returned
cache_get_unguarded(store, use_diskcache, key, now, fault) ==
    LET slot == store_slot(use_diskcache, key)
        hits == { e \in store : e.slot = slot /\ (use_diskcache => now < e.expire_at) }
    IN  IF hits = {} THEN NoValue
        ELSE [found |-> TRUE, value |-> (CHOOSE e \in hits : TRUE).value]

\* CacheManager.get: None when the read raises, the entry is absent, the
\* diskcache entry has expired or the JSON file does not parse
cache_get(store, use_diskcache, key, now, fault) ==
    LET slot == store_slot(use_diskcache, key)
        hits == { e \in store :
                    /\ e.slot = slot
                    /\ e.readable
                    /\ (use_diskcache => now < e.expire_at) }
    IN  IF fault \/ hits = {} THEN NoValue
        ELSE [found |-> TRUE, value |-> (CHOOSE e \in hits : TRUE).value]

(***************************************************************************)
(* GeminiProvider.invoke                                                   *)
(*                                                                         *)
(* A response dict is [is_none, keys, intent, recommendations, raw]: keys  *)
(* is the set of keys the dict holds, and a field is meaningful only when  *)
(* its key is in keys. recommendations is [kind |-> "list", items |-> ..]  *)
(* or [kind |-> "null"] (a JSON null).                                     *)
(***************************************************************************)

NoRaw == [kind |-> "none"]
EmptyList == [kind |-> "list", items |-> <<>>]

ResponseNone ==
    [is_none |-> TRUE, keys |-> {}, intent |-> "", recommendations |-> EmptyList, raw |-> NoRaw]

ResponseDict(keys, intent, recommendations, raw) ==
    [is_none |-> FALSE, keys |-> keys, intent |-> intent,
     recommendations |-> recommendations, raw |-> raw]

\* generate_content is what the Gemini API does on this call: kind "raises",
\* "json_dict" (the text parses to the dict it carries) or "json_other" (the
\* text parses to a JSON value that is no dict)
gemini_invoke(generate_content) ==
    CASE generate_content.kind = "raises" -> ResponseNone
      [] generate_content.kind = "json_dict" -> generate_content.dict
      [] generate_content.kind = "json_other" ->
            ResponseDict({"result", "raw_text"}, "", EmptyList, NoRaw)

\* mutant: only None counts as no response
is_falsy_none_only(llm_response) == llm_response.is_none

\* not llm_response
is_falsy(llm_response) == llm_response.is_none \/ llm_response.keys = {}

(***************************************************************************)
(* LLMEngine._local_reasoning                                              *)
(***************************************************************************)

\* str(n) for 0 <= n < 100
IntStr(n) == IF n < 10 THEN <<Digit(n)>> ELSE <<Digit(n \div 10), Digit(n % 10)>>

\* the service name is kept as one token of the text, and so is the em dash
local_reasoning(summary, anomalies) ==
    LET recs ==
            (IF anomalies # <<>>
             THEN <<[str |-> <<"D", "e", "t", "e", "c", "t", "e", "d", " ">> \o IntStr(Len(anomalies))
                              \o <<" ", "a", "n", "o", "m", "a", "l", "i", "e", "s", " ", "U+2014", " ", "i", "n", "v", "e", "s", "t", "i", "g", "a", "t", "e", " ", "f", "l", "a", "g", "g", "e", "d", " ", "r", "e", "s", "o", "u", "r", "c", "e", "s", " ", "f", "i", "r", "s", "t", ".">>]>>
             ELSE <<>>)
            \o (IF summary.top_services # <<>>
                THEN <<[str |-> <<"R", "e", "v", "i", "e", "w", " ", "t", "o", "p", " ", "s", "e", "r", "v", "i", "c", "e", ":", " ">> \o <<summary.top_services[1].service>>]>>
                ELSE <<>>)
            \o <<[str |-> <<"E", "n", "a", "b", "l", "e", " ", "S", "3", " ", "l", "i", "f", "e", "c", "y", "c", "l", "e", " ", "r", "u", "l", "e", "s", " ", "a", "n", "d", " ", "s", "e", "t", " ", "b", "u", "d", "g", "e", "t", " ", "a", "l", "e", "r", "t", "s", ".">>]>>
    IN  ResponseDict({"intent", "recommendations", "raw"},
                     IF anomalies # <<>> THEN "anomaly" ELSE "insight",
                     [kind |-> "list", items |-> recs],
                     [kind |-> "summary", summary |-> summary])

(***************************************************************************)
(* LLMEngine.analyze                                                       *)
(*                                                                         *)
(* self is [tenant_id, gemini_available, use_diskcache]; env is what the   *)
(* world does during the call: [default_file, PROPHET_AVAILABLE, prophet,  *)
(* generate_content, read_fault, write_fault, rounds_below].               *)
(***************************************************************************)

\* json.dumps(dataset, sort_keys=True): one text per dataset structure
canonical_json(dataset) == [json_sort_keys |-> dataset]

\* sha_hash(json.dumps(dataset, sort_keys=True)) if dataset else "empty"
dataset_hash_of(dataset) ==
    IF dataset # <<>> THEN sha_hash(canonical_json(dataset)) ELSE [literal |-> "empty"]

\* mutant: the dataset hash is left out of the hashed text
cache_key_of_query_only(self, query, dataset, now) ==
    make_key(self.tenant_id,
             sha_hash([query |-> query, colon |-> ":", dataset_hash |-> [literal |-> "empty"]]),
             iso_date(now))

\* mutant: the key carries the time of the call instead of its date
cache_key_of_call_time(self, query, dataset, now) ==
    make_key(self.tenant_id,
             sha_hash([query |-> query, colon |-> ":", dataset_hash |-> dataset_hash_of(dataset)]),
             iso_date(now * TicksPerDay))

\* self.cache.make_key(self.tenant_id, sha_hash(f"{query}:{dataset_hash}"), iso_date())
cache_key_of(self, query, dataset, now) ==
    make_key(self.tenant_id,
             sha_hash([query |-> query, colon |-> ":", dataset_hash |-> dataset_hash_of(dataset)]),
             iso_date(now))

\* mutant: the fallback leaves used_engine as it was initialised
used_engine_unset(llm_response) == IF is_falsy(llm_response) THEN "none" ELSE "gemini"

\* used_engine after the provider chain and the fallback
used_engine_of(llm_response) == IF is_falsy(llm_response) THEN "mock" ELSE "gemini"

\* llm_response.get(key, default) for the keys analyze reads
response_recommendations(r) == IF "recommendations" \in r.keys THEN r.recommendations ELSE EmptyList
response_intent(r, default) == IF "intent" \in r.keys THEN r.intent ELSE default
response_raw(r) == IF "raw" \in r.keys THEN r.raw ELSE NoRaw

NoResult == [engine_used |-> "no result"]

\* the providers attempted in one call, in order, then "mock" when the local
\* reasoner ran (lines 127-149; Bedrock and SageMaker are commented out)
provider_chain(self, provider_response) ==
    (IF self.gemini_available THEN <<"gemini">> ELSE <<>>)
        \o (IF is_falsy(provider_response) THEN <<"mock">> ELSE <<>>)

Raised(stage, store) ==
    [outcome |-> "raised", stage |-> stage, result |-> NoResult, store |-> store,
     cache_read |-> FALSE, cache_hit |-> FALSE, computed |-> FALSE, provider_called |-> FALSE,
     chain |-> <<>>]

\* lines 112-170: the compute path
compute(self, store, now, cache_key, query, dataset, horizon_days, env) ==
    LET det == detect_anomalies(dataset, env.rounds_below)
        summary == dataset_summary(dataset)
        dashboard == route_dashboard(query)
        fc == forecast_costs(dataset, horizon_days, env.PROPHET_AVAILABLE, env.prophet)
        provider_response ==
            IF self.gemini_available THEN gemini_invoke(env.generate_content) ELSE ResponseNone
        llm_response ==
            IF is_falsy(provider_response)
            THEN local_reasoning(summary, det.anomalies)
            ELSE provider_response
        base_recs == response_recommendations(llm_response)
        result ==
            [intent |-> response_intent(llm_response, summary.dominant_intent),
             dashboard |-> dashboard,
             summary |-> summary,
             anomalies |-> det.anomalies,
             anomaly_summary |-> det.anomaly_summary,
             forecast |-> fc.forecast,
             forecast_meta |-> fc.forecast_meta,
             recommendations |-> tune_recommendations(base_recs.items, dashboard),
             engine_used |-> used_engine_of(provider_response),
             raw_llm |-> response_raw(llm_response),
             timestamp |-> now]
    IN  IF base_recs.kind # "list"
        THEN [Raised("tune_recommendations", store) EXCEPT
                !.computed = TRUE, !.provider_called = self.gemini_available,
                !.chain = provider_chain(self, provider_response)]
        ELSE [outcome |-> "returned", stage |-> "done", result |-> result,
              store |-> cache_set(store, self.use_diskcache, cache_key, result, now,
                                  TicksPerDay, env.write_fault),
              cache_read |-> FALSE, cache_hit |-> FALSE, computed |-> TRUE,
              provider_called |-> self.gemini_available,
              chain |-> provider_chain(self, provider_response)]

analyze(self, store, now, query, raw_data, horizon_days, force_refresh, env) ==
    LET loaded == load_dataset(raw_data, env.default_file)
        cache_key == cache_key_of(self, query, loaded.dataset, now)
        cached == cache_get(store, self.use_diskcache, cache_key, now, env.read_fault)
    IN  IF loaded.raised THEN Raised("load_dataset", store)
        ELSE IF ~force_refresh /\ cached.found
        THEN [outcome |-> "returned", stage |-> "done", result |-> cached.value, store |-> store,
              cache_read |-> TRUE, cache_hit |-> TRUE, computed |-> FALSE,
              provider_called |-> FALSE, chain |-> <<>>]
        ELSE [compute(self, store, now, cache_key, query, loaded.dataset, horizon_days, env)
                EXCEPT !.cache_read = ~force_refresh]

(***************************************************************************)
(* One analyze call on a freshly constructed engine and an empty cache     *)
(***************************************************************************)

Acme == <<"a", "c", "m", "e">>
CostQuery == <<"c", "o", "s", "t">>
CpuQuery == <<"C", "P", "U", " ", "u", "s", "a", "g", "e">>

SpikeDataset ==
    <<[service_name |-> "EC2", cost |-> 10, usage_date |-> IsoDay(1), anomaly_score |-> 9],
      [service_name |-> "S3", cost |-> 3, usage_date |-> IsoDay(2)]>>
QuietDataset == <<[service |-> "Lambda", cost |-> 4, region |-> "eu-west-1"]>>

RawList(ds) == [kind |-> "list", records |-> ds, file |-> "n/a"]
RawPath(file) == [kind |-> "path", records |-> <<>>, file |-> file]

AnalyzeRawData ==
    { RawList(SpikeDataset), RawList(<<>>),
      [kind |-> "dict_records", records |-> QuietDataset, file |-> "n/a"],
      [kind |-> "dict", records |-> <<FileRecord>>, file |-> "n/a"],
      [kind |-> "s3", records |-> <<>>, file |-> "n/a"],
      [kind |-> "none", records |-> <<>>, file |-> "n/a"] }
        \cup { RawPath(f) : f \in {"missing", "invalid", "list", "object"} }

GeminiRecs == [kind |-> "list", items |-> <<[str |-> ResizeEC2], [dict |-> [action |-> ResizeEc2Lower]]>>]

GenerateContent ==
    { [kind |-> "raises", dict |-> ResponseNone],
      [kind |-> "json_other", dict |-> ResponseNone],
      [kind |-> "json_dict", dict |-> ResponseDict({}, "", EmptyList, NoRaw)],
      [kind |-> "json_dict", dict |-> ResponseDict({"intent", "recommendations"}, "optimize", GeminiRecs, NoRaw)],
      [kind |-> "json_dict", dict |-> ResponseDict({"summary"}, "", EmptyList, NoRaw)],
      [kind |-> "json_dict", dict |-> ResponseDict({"intent", "recommendations"}, "insight", [kind |-> "null"], NoRaw)] }

AnalyzeEnvs ==
    [default_file : {"missing", "invalid", "list"},
     PROPHET_AVAILABLE : BOOLEAN,
     prophet : {[raises |-> FALSE, yhat |-> 1250]},
     generate_content : GenerateContent,
     read_fault : {FALSE},
     write_fault : {"none", "torn"},
     rounds_below : {FALSE}]    \* no dataset of AnalyzeRawData has ten services

Self(tenant_id) ==
    [tenant_id |-> tenant_id, gemini_available |-> gemini_available, use_diskcache |-> cache_use_diskcache]

InitAnalyze ==
    /\ cache_use_diskcache \in BOOLEAN
    /\ gemini_available \in BOOLEAN
    /\ cache_store = {}
    /\ clock = 0
    /\ log = <<>>
    /\ n_calls = 0
    /\ unit = "analyze"
    /\ unit_in \in [query : {CostQuery, CpuQuery},
                    raw_data : AnalyzeRawData,
                    horizon_days : {2},
                    force_refresh : BOOLEAN,
                    env : AnalyzeEnvs]
    /\ unit_done = FALSE
    /\ unit_out = <<>>

ApplyAnalyze ==
    /\ unit = "analyze"
    /\ ~unit_done
    /\ LET out == analyze(Self(Acme), cache_store, clock, unit_in.query, unit_in.raw_data,
                          unit_in.horizon_days, unit_in.force_refresh, unit_in.env)
       IN  /\ unit_out' = [out EXCEPT !.store = {}]
           /\ cache_store' = out.store
    /\ unit_done' = TRUE
    /\ n_calls' = n_calls + 1
    /\ UNCHANGED <<unit, unit_in, cache_use_diskcache, gemini_available, clock, log>>

SpecAnalyze == InitAnalyze /\ [][ApplyAnalyze]_vars

AnalyzeDone == unit = "analyze" /\ unit_done

\* no provider yields a response: the provider is unavailable, raises, or
\* returns null or an empty response
SpecNoProviderResponse ==
    \/ ~gemini_available
    \/ unit_in.env.generate_content.kind = "raises"
    \/ /\ unit_in.env.generate_content.kind = "json_dict"
       /\ unit_in.env.generate_content.dict.keys = {}

\* the call got past loading its dataset
SpecLoaded == ~(unit_out.outcome = "raised" /\ unit_out.stage = "load_dataset")

\* C1: an analyze call that has its dataset and in which every provider is
\* unavailable, raises, or returns null or an empty response returns a result
\* with engine_used = "mock" and a non-empty recommendations list, the last of
\* which is the local reasoner's standing advice followed by the dashboard's
\* guidance.
C1_ProviderFallback ==
    (AnalyzeDone /\ SpecLoaded /\ SpecNoProviderResponse) =>
        /\ unit_out.outcome = "returned"
        /\ unit_out.result.engine_used = "mock"
        /\ unit_out.result.recommendations # <<>>
        /\ \E i \in 1..Len(unit_out.result.recommendations) :
              unit_out.result.recommendations[i] =
                  <<"E", "n", "a", "b", "l", "e", " ", "S", "3", " ", "l", "i", "f", "e", "c", "y", "c", "l", "e", " ", "r", "u", "l", "e", "s", " ", "a", "n", "d", " ", "s", "e", "t", " ", "b", "u", "d", "g", "e", "t", " ", "a", "l", "e", "r", "t", "s", ".">>

\* the provider was invoked, raised, and the local reasoner answered
C1_Witness ==
    /\ AnalyzeDone
    /\ gemini_available
    /\ unit_in.env.generate_content.kind = "raises"
    /\ unit_out.provider_called
    /\ unit_out.outcome = "returned"
    /\ unit_out.result.engine_used = "mock"
    /\ Len(unit_out.result.recommendations) >= 3

\* C4 (as claimed): analyze returns a result for every query, raw_data, horizon
\* and force_refresh; it never propagates an exception.
C4_NeverRaises ==
    AnalyzeDone => unit_out.outcome = "returned"

(***************************************************************************)
(* The engine over time: analyze calls against one cache, and the clock    *)
(***************************************************************************)

MaxCalls == 3
MaxClock == 2

CacheQueries == {CostQuery, CpuQuery}
CacheIO == {"ok", "read_fault", "write_refused", "write_torn"}

CacheEnv(io) ==
    [default_file |-> "missing",
     PROPHET_AVAILABLE |-> FALSE,
     prophet |-> [raises |-> FALSE, yhat |-> 0],
     generate_content |->
         [kind |-> "json_dict",
          dict |-> ResponseDict({"intent", "recommendations"}, "optimize", GeminiRecs, NoRaw)],
     read_fault |-> (io = "read_fault"),
     write_fault |-> CASE io = "write_refused" -> "refused"
                       [] io = "write_torn" -> "torn"
                       [] OTHER -> "none",
     rounds_below |-> FALSE]

InitCache ==
    /\ cache_use_diskcache \in BOOLEAN
    /\ gemini_available = TRUE
    /\ cache_store = {}
    /\ clock = 0
    /\ log = <<>>
    /\ n_calls = 0
    /\ unit = "none"
    /\ unit_in = <<>>
    /\ unit_done = FALSE
    /\ unit_out = <<>>

\* what the log keeps of one call
LogEntry(self, query, dataset, force_refresh, io, out) ==
    [tenant_id |-> self.tenant_id,
     query |-> query,
     dataset |-> dataset,
     date |-> iso_date(clock),
     cache_key |-> cache_key_of(self, query, dataset, clock),
     force_refresh |-> force_refresh,
     io |-> io,
     outcome |-> out.outcome,
     result |-> out.result,
     cache_read |-> out.cache_read,
     cache_hit |-> out.cache_hit,
     computed |-> out.computed]

Analyze(query, force_refresh, io) ==
    /\ unit = "none"
    /\ n_calls < MaxCalls
    /\ force_refresh => io # "read_fault"    \* a forced call reads nothing
    /\ LET self == Self(Acme)
           out == analyze(self, cache_store, clock, query, RawList(QuietDataset), 2,
                          force_refresh, CacheEnv(io))
           entry == LogEntry(self, query, QuietDataset, force_refresh, io, out)
       IN  /\ cache_store' = out.store
           /\ log' = IF Len(log) < 2 THEN Append(log, entry) ELSE <<log[2], entry>>
    /\ n_calls' = n_calls + 1
    /\ UNCHANGED <<unit_vars, cache_use_diskcache, gemini_available, clock>>

Tick ==
    /\ unit = "none"
    /\ clock < MaxClock
    /\ clock' = clock + 1
    /\ UNCHANGED <<unit_vars, cache_use_diskcache, gemini_available, cache_store, log, n_calls>>

NextCache ==
    \/ \E query \in CacheQueries, force_refresh \in BOOLEAN, io \in CacheIO :
          Analyze(query, force_refresh, io)
    \/ Tick

SpecCache == InitCache /\ [][NextCache]_vars

\* two successive calls, the earlier one first
SpecSuccessive == Len(log) = 2
SpecEarlier == log[1]
SpecLater == log[2]

SpecSameRequest ==
    /\ SpecEarlier.tenant_id = SpecLater.tenant_id
    /\ SpecEarlier.query = SpecLater.query
    /\ SpecEarlier.dataset = SpecLater.dataset
    /\ SpecEarlier.date = SpecLater.date

SpecWriteAccepted(call) == call.computed => call.io \notin {"write_refused", "write_torn"}
SpecReadServed(call) == call.io # "read_fault"

\* the two results serialize to the same JSON document
SpecSameAsJson(r1, r2) == json_round_trip(r1) = json_round_trip(r2)

\* C2 (as claimed): of two successive unforced calls with the same tenant,
\* query, dataset and UTC date, the later returns the very result of the
\* earlier and does not run the compute path.
C2_Idempotent ==
    (SpecSuccessive /\ SpecSameRequest
        /\ ~SpecEarlier.force_refresh /\ ~SpecLater.force_refresh) =>
        /\ SpecLater.outcome = "returned"
        /\ SpecLater.result = SpecEarlier.result
        /\ ~SpecLater.computed

\* C2 (amended): of two successive unforced calls with the same tenant, query,
\* dataset and UTC date, where the store accepted the write of the earlier call
\* and serves the read of the later one, the later call returns a result that
\* serializes to the same JSON as the earlier result (the very same value when
\* the store is diskcache) and does not run the compute path.
C2_IdempotentWhenStored ==
    (SpecSuccessive /\ SpecSameRequest
        /\ ~SpecEarlier.force_refresh /\ ~SpecLater.force_refresh
        /\ SpecWriteAccepted(SpecEarlier) /\ SpecReadServed(SpecLater)) =>
        /\ SpecLater.outcome = "returned"
        /\ SpecSameAsJson(SpecLater.result, SpecEarlier.result)
        /\ cache_use_diskcache => SpecLater.result = SpecEarlier.result
        /\ SpecLater.cache_hit
        /\ ~SpecLater.computed

\* the earlier call computed and stored, the later one was served from the store
\* at a later time of the same day
C2_Witness ==
    /\ unit = "none"
    /\ SpecSuccessive /\ SpecSameRequest
    /\ ~SpecEarlier.force_refresh /\ ~SpecLater.force_refresh
    /\ SpecEarlier.computed /\ SpecEarlier.io = "ok" /\ SpecLater.io = "ok"
    /\ SpecLater.cache_hit
    /\ SpecLater.result.timestamp < clock

\* the entry the store holds under the key of a call
SpecStored(call) ==
    { e \in cache_store : e.slot = store_slot(cache_use_diskcache, call.cache_key) }

SpecForcedComputes ==
    \A i \in 1..Len(log) :
        log[i].force_refresh => (~log[i].cache_read /\ ~log[i].cache_hit /\ log[i].computed)

MaxSummaryRecords == 2

\* records with and without service_name, service, region and cost
SummaryRecords ==
    LET costs == {<<>>} \cup { [cost |-> c] : c \in {-5, 10} }
        names == {<<>>, [service_name |-> ""], [service_name |-> "EC2"]}
        services == {<<>>, [service |-> "S3"]}
        regions == {<<>>, [region |-> "us-east-1"]}
    IN  { c @@ n @@ v @@ g : c \in costs, n \in names, v \in services, g \in regions }

InitSummary ==
    /\ EngineIdle
    /\ unit = "dataset_summary"
    /\ unit_in \in { [dataset |-> d] : d \in SeqsUpTo(SummaryRecords, MaxSummaryRecords) }
    /\ unit_done = FALSE
    /\ unit_out = <<>>

ApplySummary ==
    /\ unit = "dataset_summary"
    /\ ~unit_done
    /\ unit_done' = TRUE
    /\ unit_out' = dataset_summary(unit_in.dataset)
    /\ UNCHANGED <<unit, unit_in, engine_vars>>

SpecSummary == InitSummary /\ [][ApplySummary]_vars

SummaryDone == unit = "dataset_summary" /\ unit_done

\* the sum of the values of a breakdown, in cents
SpecBreakdownCents(breakdown) == 100 * SeqSum([i \in 1..Len(breakdown) |-> breakdown[i].v])

\* C11: for every dataset, the values of the cost-by-service mapping add up to
\* total_cost_usd within one cent, and so do the values of the cost-by-region
\* mapping.
C11_SummaryTotals ==
    SummaryDone =>
        /\ Abs(SpecBreakdownCents(unit_out.service_breakdown) - unit_out.total_cost_usd) <= 1
        /\ Abs(SpecBreakdownCents(unit_out.region_breakdown) - unit_out.total_cost_usd) <= 1

\* a summary of two records, one of them without service, region and cost
C11_Witness ==
    /\ SummaryDone
    /\ Len(unit_in.dataset) = 2
    /\ unit_in.dataset[1] = <<>>
    /\ unit_out.total_cost_usd = 1000
    /\ Len(unit_out.service_breakdown) = 2
    /\ \E i \in 1..2 : unit_out.service_breakdown[i] = [k |-> "unknown", v |-> 0]

\* the summary of the empty dataset
C11_WitnessEmpty ==
    SummaryDone /\ unit_in.dataset = <<>> /\ unit_out.total_cost_usd = 0

(***************************************************************************)
(* enhanced_analysis: extract_explicit_anomalies and                       *)
(* merge_model_and_explicit_anomalies                                      *)
(*                                                                         *)
(* None is the string "None", as the f-string of key_for prints it; the    *)
(* ids and dates of these records are whole strings.                       *)
(***************************************************************************)

\* r.get(k1) or r.get(k2), None when both are missing or empty
GetOr(r, k1, k2) ==
    IF Get(r, k1, "") # "" THEN r[k1]
    ELSE IF Get(r, k2, "") # "" THEN r[k2]
    ELSE "None"

\* r.get("anomaly_flag") is True, else float(r.get("anomaly_score", 0) or 0) >= 0.8
is_extracted_anomaly(r) ==
    Get(r, "anomaly_flag", FALSE) \/ Get(r, "anomaly_score", 0) >= 8

extract_explicit_anomalies(dataset) == SelectSeq(dataset, is_extracted_anomaly)

\* f"{service_name or service}_{resource_id or account_id}_{usage_date or date or ''}"
key_for(r) ==
    <<GetOr(r, "service_name", "service"), "_",
      GetOr(r, "resource_id", "account_id"), "_",
      IF GetOr(r, "usage_date", "date") = "None" THEN "" ELSE GetOr(r, "usage_date", "date")>>

cleaned(r) ==
    [service_name |-> GetOr(r, "service_name", "service"),
     resource_id |-> Get(r, "resource_id", "None"),
     account_id |-> Get(r, "account_id", "None"),
     usage_date |-> GetOr(r, "usage_date", "date"),
     cost |-> Get(r, "cost", "None"),
     anomaly_score |-> Get(r, "anomaly_score", "None"),
     anomaly_flag |-> TRUE]

\* the merged list: every model anomaly, then the explicit anomalies whose key
\* has not been seen
merge_anomalies(model_anoms, explicit_anoms) ==
    LET model_keys == { key_for(model_anoms[i]) : i \in 1..Len(model_anoms) }
        f[i \in 0..Len(explicit_anoms)] ==
            IF i = 0 THEN [merged |-> model_anoms, seen |-> model_keys]
            ELSE IF key_for(explicit_anoms[i]) \in f[i - 1].seen THEN f[i - 1]
            ELSE [merged |-> Append(f[i - 1].merged, cleaned(explicit_anoms[i])),
                  seen |-> f[i - 1].seen \cup {key_for(explicit_anoms[i])}]
    IN  f[Len(explicit_anoms)].merged

\* model_result["anomalies"] = merged; model_result["anomaly_summary"] = {"count": len(merged)}
\* mutant: the count is left as the engine set it
merge_model_and_explicit_anomalies_stale_count(model_result, explicit_anoms) ==
    [model_result EXCEPT
        !.anomalies = merge_anomalies(model_result.anomalies, explicit_anoms)]

merge_model_and_explicit_anomalies(model_result, explicit_anoms) ==
    LET merged == merge_anomalies(model_result.anomalies, explicit_anoms)
    IN  [model_result EXCEPT !.anomalies = merged, !.anomaly_summary = [count |-> Len(merged)]]

MaxMergeRecords == 2

MergeRecords ==
    LET base == { [service_name |-> "EC2", cost |-> c] : c \in {-5, 10} }
        withId == base \cup { r @@ [resource_id |-> "i-1"] : r \in base }
        withDate == withId \cup { r @@ [usage_date |-> "2024-01-01"] : r \in withId }
        withFlag == withDate \cup { r @@ [anomaly_flag |-> TRUE] : r \in withDate }
    IN  withFlag \cup { r @@ [anomaly_score |-> x] : r \in withFlag, x \in {8, 9} }

InitMerge ==
    /\ EngineIdle
    /\ unit = "merge_anomalies"
    /\ unit_in \in { [dataset |-> d] :
                        d \in SeqsUpTo(MergeRecords, MaxMergeRecords) \cup {OutlierDataset} }
    /\ unit_done = FALSE
    /\ unit_out = <<>>

\* run_enhanced_analysis: the engine's anomalies of the dataset merged with the
\* dataset's explicit anomalies (with fewer than ten services no total lies on
\* the threshold, so the rounding has no part)
ApplyMerge ==
    /\ unit = "merge_anomalies"
    /\ ~unit_done
    /\ unit_done' = TRUE
    /\ unit_out' = merge_model_and_explicit_anomalies(detect_anomalies(unit_in.dataset, FALSE),
                                                      extract_explicit_anomalies(unit_in.dataset))
    /\ UNCHANGED <<unit, unit_in, engine_vars>>

SpecMerge == InitMerge /\ [][ApplyMerge]_vars

MergeDone == unit = "merge_anomalies" /\ unit_done

SpecIsSynthesizedEntry(a) == "reason" \in DOMAIN a

\* C12 (as claimed): no two entries of the merged anomaly list share a
\* composite key, and a key shared by an explicit per-record anomaly and a
\* synthesized service-level entry is held by the per-record one.
C12_NoDuplicateKeys ==
    MergeDone =>
        /\ \A i, j \in 1..Len(unit_out.anomalies) :
              i # j => key_for(unit_out.anomalies[i]) # key_for(unit_out.anomalies[j])
        /\ \A i \in 1..Len(unit_out.anomalies), k \in 1..Len(unit_in.dataset) :
              (/\ is_extracted_anomaly(unit_in.dataset[k])
               /\ key_for(unit_in.dataset[k]) = key_for(unit_out.anomalies[i]))
                  => ~SpecIsSynthesizedEntry(unit_out.anomalies[i])

(***************************************************************************)
(* Two analyze calls of one tenant on one day, the second unforced         *)
(***************************************************************************)

MaxKeyClock == 1

KeyQueries == {CostQuery, CpuQuery, <<>>}
KeyDatasets == {<<>>, <<<<>>>>, QuietDataset, SpikeDataset}

InitKeys ==
    /\ cache_use_diskcache \in BOOLEAN
    /\ gemini_available = FALSE
    /\ cache_store = {}
    /\ clock = 0
    /\ log = <<>>
    /\ n_calls = 0
    /\ unit = "cache_key"
    /\ unit_in \in { r \in [query1 : KeyQueries, dataset1 : KeyDatasets, at1 : 0..MaxKeyClock,
                            query2 : KeyQueries, dataset2 : KeyDatasets, at2 : 0..MaxKeyClock,
                            force_refresh1 : BOOLEAN] :
                        r.at1 <= r.at2 /\ iso_date(r.at1) = iso_date(r.at2) }
    /\ unit_done = FALSE
    /\ unit_out = <<>>

ApplyKeys ==
    /\ unit = "cache_key"
    /\ ~unit_done
    /\ LET self == Self(Acme)
           first == analyze(self, cache_store, unit_in.at1, unit_in.query1,
                            RawList(unit_in.dataset1), 2, unit_in.force_refresh1, CacheEnv("ok"))
           second == analyze(self, first.store, unit_in.at2, unit_in.query2,
                             RawList(unit_in.dataset2), 2, FALSE, CacheEnv("ok"))
       IN  /\ unit_out' =
                [key1 |-> cache_key_of(self, unit_in.query1, unit_in.dataset1, unit_in.at1),
                 key2 |-> cache_key_of(self, unit_in.query2, unit_in.dataset2, unit_in.at2),
                 first |-> [first EXCEPT !.store = {}],
                 second |-> [second EXCEPT !.store = {}]]
           /\ cache_store' = second.store
    /\ unit_done' = TRUE
    /\ clock' = unit_in.at2
    /\ n_calls' = 2
    /\ UNCHANGED <<unit, unit_in, cache_use_diskcache, gemini_available, log>>

SpecKeys == InitKeys /\ [][ApplyKeys]_vars

KeysDone == unit = "cache_key" /\ unit_done

SpecRequestsDiffer ==
    unit_in.query1 # unit_in.query2 \/ unit_in.dataset1 # unit_in.dataset2

SpecUnreadableReference ==
    \/ unit_in.raw_data.kind = "s3"
    \/ unit_in.raw_data.kind = "path" /\ unit_in.raw_data.file \in {"missing", "invalid"}

\* C14 (as claimed): when raw_data is an unreadable or malformed dataset
\* reference, analyze returns a result, computed over the empty dataset.
C14_LoadRecovers ==
    (AnalyzeDone /\ SpecUnreadableReference) =>
        /\ unit_out.outcome = "returned"
        /\ unit_out.result.summary.records = 0

\* the call that a step of the engine has just made
SpecCallMade == n_calls' = n_calls + 1
SpecThisCall == log'[Len(log')]

SpecOtherEntries(entries, call) ==
    { e \in entries : e.slot # store_slot(cache_use_diskcache, call.cache_key) }

\* C15: a call whose cache read fails is treated as a miss and computes; a call
\* whose cache write fails still returns the result it computed; either way the
\* entries of the store under other keys are left as they were, and a write
\* that the store refuses leaves the whole store as it was.
C15_CacheIORecovery ==
    [][ SpecCallMade =>
          /\ (SpecThisCall.io = "read_fault") =>
                /\ SpecThisCall.cache_read
                /\ ~SpecThisCall.cache_hit
                /\ SpecThisCall.outcome = "returned"
                /\ SpecThisCall.computed
                /\ SpecThisCall.result.timestamp = clock
          /\ (SpecThisCall.io \in {"write_refused", "write_torn"} /\ ~SpecThisCall.cache_hit) =>
                /\ SpecThisCall.outcome = "returned"
                /\ SpecThisCall.computed
                /\ SpecThisCall.result.timestamp = clock
          /\ (SpecThisCall.io # "ok") =>
                SpecOtherEntries(cache_store', SpecThisCall)
                    = SpecOtherEntries(cache_store, SpecThisCall)
          /\ (SpecThisCall.io = "write_refused") => cache_store' = cache_store
      ]_vars

\* an entry was stored, a later read of it failed and the call computed again,
\* while the entry of another key stayed in the store
C15_Witness ==
    /\ unit = "none"
    /\ n_calls = 3
    /\ SpecSuccessive
    /\ SpecLater.cache_key = SpecEarlier.cache_key
    /\ SpecEarlier.io = "ok" /\ SpecEarlier.computed
    /\ SpecLater.io = "read_fault" /\ SpecLater.computed
    /\ SpecLater.result.timestamp > SpecEarlier.result.timestamp
    /\ Cardinality(cache_store) = 2

(***************************************************************************)
(* analysis_scheduler.run_daily_analysis                                   *)
(*                                                                         *)
(* unit_in is what the job meets: whether the usage table can be read and  *)
(* holds rows, and for each query whether its analysis raises and whether  *)
(* the insert of its result fails. unit_out is the job: pc, the index of   *)
(* the query at hand, the result table, the queries attempted in order,    *)
(* those whose failure was caught, and whether an exception left the job.  *)
(***************************************************************************)

DefaultTenant == <<"d", "e", "f", "a", "u", "l", "t">>

\* the three queries of the job, shortened
BatchQueries == <<<<"o", "p", "t", "i", "m", "i", "z", "e", " ", "c", "o", "s", "t">>, <<"c", "o", "s", "t", " ", "a", "n", "o", "m", "a", "l", "i", "e", "s">>, <<"f", "o", "r", "e", "c", "a", "s", "t", " ", "c", "o", "s", "t">>>>

BatchHorizonDays == 30

BatchRecords ==
    <<[service_name |-> "EC2", cost |-> 10, usage_date |-> IsoDay(2), anomaly_score |-> 9],
      [service_name |-> "S3", cost |-> 3, usage_date |-> IsoDay(1), anomaly_score |-> 1]>>

NullRecs == [kind |-> "null"]

\* the provider answers; when the analysis is to fail its answer carries
\* "recommendations": null, which the tuner does not survive
BatchEnv(fails) ==
    [CacheEnv("ok") EXCEPT
        !.generate_content =
            [kind |-> "json_dict",
             dict |-> ResponseDict({"intent", "recommendations"}, "optimize",
                                   IF fails THEN NullRecs ELSE GeminiRecs, NoRaw)]]

\* mutant: a plain INSERT into a table without the UNIQUE constraint
insert_without_unique(rows, row) == rows \cup {row}

\* INSERT OR REPLACE under UNIQUE(analysis_date, query_text)
insert_or_replace(rows, row) ==
    { r \in rows : ~(r.analysis_date = row.analysis_date /\ r.query_text = row.query_text) }
        \cup {row}

result_row(analysis_date, query_text, analysis_result) ==
    [analysis_date |-> analysis_date,
     query_text |-> query_text,
     intent |-> analysis_result.intent,
     dashboard_type |-> analysis_result.dashboard,
     engine_used |-> analysis_result.engine_used,
     recommendations_count |-> Len(analysis_result.recommendations),
     anomalies_count |-> Len(analysis_result.anomalies)]

\* the loop goes on to the next query, or ends after the last
next_query(job) ==
    IF job.i < Len(BatchQueries) THEN [job EXCEPT !.i = job.i + 1]
    ELSE [job EXCEPT !.pc = "done"]

\* mutant: a failure leaves the loop for the handler of the whole job
after_failure_abort(job) == [job EXCEPT !.failed = @ \cup {job.i}, !.pc = "done"]

\* except Exception as e: logger.error(...), inside the loop
after_failure(job) == next_query([job EXCEPT !.failed = @ \cup {job.i}])

InitBatch ==
    /\ cache_use_diskcache \in BOOLEAN
    /\ gemini_available = TRUE
    /\ cache_store = {}
    /\ clock = 0
    /\ log = <<>>
    /\ n_calls = 0
    /\ unit = "run_daily_analysis"
    /\ unit_in \in [daily_usage : {"unreadable", "empty", "rows"},
                    analysis_fails : [1..Len(BatchQueries) -> BOOLEAN],
                    insert_fails : [1..Len(BatchQueries) -> BOOLEAN]]
    /\ unit_done = FALSE
    /\ unit_out = [pc |-> "start", i |-> 0, rows |-> {}, attempted |-> <<>>,
                   failed |-> {}, raised |-> FALSE]

\* the job up to the loop: the engine is built and the usage rows are read
BatchLoad ==
    /\ unit = "run_daily_analysis"
    /\ unit_out.pc = "start"
    /\ unit_out' = IF unit_in.daily_usage = "rows"
                   THEN [unit_out EXCEPT !.pc = "loop", !.i = 1]
                   ELSE [unit_out EXCEPT !.pc = "done"]
    /\ UNCHANGED <<unit, unit_in, unit_done, engine_vars>>

\* one pass of the loop: analyze the query, insert the row, or catch the failure
BatchQuery ==
    /\ unit = "run_daily_analysis"
    /\ unit_out.pc = "loop"
    /\ LET i == unit_out.i
           out == analyze(Self(DefaultTenant), cache_store, clock, BatchQueries[i],
                          RawList(BatchRecords), BatchHorizonDays, TRUE,
                          BatchEnv(unit_in.analysis_fails[i]))
           job == [unit_out EXCEPT !.attempted = Append(@, i)]
       IN  /\ cache_store' = out.store
           /\ unit_out' =
                IF out.outcome = "raised" \/ unit_in.insert_fails[i]
                THEN after_failure(job)
                ELSE next_query([job EXCEPT !.rows =
                        insert_or_replace(@, result_row(iso_date(clock), BatchQueries[i], out.result))])
    /\ n_calls' = n_calls + 1
    /\ UNCHANGED <<unit, unit_in, unit_done, cache_use_diskcache, gemini_available, clock, log>>

\* the job returns
BatchReturn ==
    /\ unit = "run_daily_analysis"
    /\ unit_out.pc = "done"
    /\ ~unit_done
    /\ unit_done' = TRUE
    /\ UNCHANGED <<unit, unit_in, unit_out, engine_vars>>

NextBatch == BatchLoad \/ BatchQuery \/ BatchReturn

SpecBatch == InitBatch /\ [][NextBatch]_vars

BatchDone == unit = "run_daily_analysis" /\ unit_done

SpecInOrder(attempted) == \A k \in 1..Len(attempted) : attempted[k] = k

SpecQuerySucceeds(i) == ~unit_in.analysis_fails[i] /\ ~unit_in.insert_fails[i]

\* what holds of the job at every moment
SpecBatchSafe ==
    unit = "run_daily_analysis" =>
        /\ SpecInOrder(unit_out.attempted)
        /\ ~unit_out.raised
        /\ (BatchDone /\ unit_in.daily_usage = "rows") =>
              /\ Len(unit_out.attempted) = Len(BatchQueries)
              /\ \A i \in 1..Len(BatchQueries) :
                    SpecQuerySucceeds(i) <=>
                        \E r \in unit_out.rows : r.query_text = BatchQueries[i]
              /\ unit_out.failed = { i \in 1..Len(BatchQueries) : ~SpecQuerySucceeds(i) }

\* a job that has not returned has a step to take: the guards of BatchLoad,
\* BatchQuery and BatchReturn
SpecBatchCanStep ==
    \/ unit_done
    \/ unit_out.pc \in {"start", "done"}
    \/ unit_out.pc = "loop" /\ unit_out.i \in 1..Len(BatchQueries)

\* the steps the job has left at most
SpecBatchStepsLeft ==
    IF unit_done THEN 0
    ELSE IF unit_out.pc = "done" THEN 1
    ELSE IF unit_out.pc = "loop" THEN 2 + Len(BatchQueries) - unit_out.i
    ELSE 2 + Len(BatchQueries)

\* C16: the job takes its queries strictly in order, one at a time; once it has
\* read the usage rows, every query is analyzed whatever happened to the
\* queries before it, and every query whose analysis and insert do not fail has
\* its row in the result table when the job ends; no exception leaves the job;
\* and the job ends: until it has returned it has a step to take, and every
\* step leaves it fewer steps.
C16_BatchIsolation ==
    /\ [](SpecBatchSafe /\ SpecBatchCanStep)
    /\ [][SpecBatchStepsLeft' < SpecBatchStepsLeft]_vars

\* the first query's analysis raised, the second's insert failed, and the third
\* was analyzed and stored
C16_Witness ==
    /\ BatchDone
    /\ unit_in.analysis_fails[1] /\ ~unit_in.insert_fails[1]
    /\ unit_in.insert_fails[2] /\ ~unit_in.analysis_fails[2]
    /\ unit_out.failed = {1, 2}
    /\ unit_out.attempted = <<1, 2, 3>>
    /\ \E r \in unit_out.rows : r.query_text = BatchQueries[3] /\ r.engine_used = "gemini"

(***************************************************************************)
(* CacheManager on its own: set, get and the passing of time               *)
(***************************************************************************)

MaxStoreClock == 3

StoreKeys == { make_key(Acme, q, IsoDay(1)) : q \in {"q1", "q2"} }

\* the ttl of a write, in ticks: half a day, or the default of one day
StoreExpires == {1, TicksPerDay}

\* a value as small as a result can be, marked with the time and ttl of its write
StoreValue(at, expire) ==
    [summary |-> [top_services |-> <<>>], raw_llm |-> NoRaw, timestamp |-> at, ttl |-> expire]

InitStore ==
    /\ cache_use_diskcache \in BOOLEAN
    /\ gemini_available = FALSE
    /\ cache_store = {}
    /\ clock = 0
    /\ log = <<>>
    /\ n_calls = 0
    /\ unit = "cache"
    /\ unit_in = <<>>
    /\ unit_done = FALSE
    /\ unit_out = <<>>

\* cache.set(key, value, expire_seconds)
StoreSet(key, expire) ==
    /\ unit = "cache"
    /\ cache_store' = cache_set(cache_store, cache_use_diskcache, key,
                                StoreValue(clock, expire), clock, expire, "none")
    /\ UNCHANGED <<unit_vars, cache_use_diskcache, gemini_available, clock, log, n_calls>>

\* cache.get(key): unit_out keeps the read and what it returned
StoreGet(key) ==
    /\ unit = "cache"
    /\ unit_done' = TRUE
    /\ unit_out' = [key |-> key, at |-> clock,
                    got |-> cache_get(cache_store, cache_use_diskcache, key, clock, FALSE)]
    /\ UNCHANGED <<unit, unit_in, engine_vars>>

StoreTick ==
    /\ unit = "cache"
    /\ clock < MaxStoreClock
    /\ clock' = clock + 1
    /\ UNCHANGED <<unit_vars, cache_use_diskcache, gemini_available, cache_store, log, n_calls>>

NextStore ==
    \/ \E key \in StoreKeys, expire \in StoreExpires : StoreSet(key, expire)
    \/ \E key \in StoreKeys : StoreGet(key)
    \/ StoreTick

SpecStore == InitStore /\ [][NextStore]_vars

\* C17 (as claimed): with either store, a read never returns an entry whose ttl
\* has elapsed since it was written.
C17_NeverReturnsExpired ==
    (unit = "cache" /\ unit_done /\ unit_out.got.found) =>
        unit_out.at < unit_out.got.value.timestamp + unit_out.got.value.ttl

\* C18: in an analyze call that has its dataset, the provider is attempted
\* first and at most once and only when it is available; when it raises or
\* returns null or an empty response the call goes on and the local reasoner
\* runs, and it runs in no other case; a result's engine_used is "gemini" when
\* the provider gave a non-empty response and "mock" otherwise, never "none".
C18_ProviderChain ==
    (AnalyzeDone /\ SpecLoaded) =>
        /\ unit_out.chain \in {<<"gemini">>, <<"gemini", "mock">>, <<"mock">>}
        /\ (unit_out.chain[1] = "gemini") <=> gemini_available
        /\ (unit_out.chain[Len(unit_out.chain)] = "mock") <=> SpecNoProviderResponse
        /\ SpecNoProviderResponse => unit_out.outcome = "returned"
        /\ (unit_out.outcome = "returned") =>
              /\ unit_out.result.engine_used
                    = IF SpecNoProviderResponse THEN "mock" ELSE "gemini"
              /\ (unit_out.result.raw_llm.kind = "summary") <=> SpecNoProviderResponse

\* the provider returned an empty response and the local reasoner took over
C18_Witness ==
    /\ AnalyzeDone
    /\ gemini_available
    /\ unit_in.env.generate_content.kind = "json_dict"
    /\ unit_in.env.generate_content.dict.keys = {}
    /\ unit_out.chain = <<"gemini", "mock">>
    /\ unit_out.outcome = "returned"
    /\ unit_out.result.engine_used = "mock"

\* the provider returned a JSON value that is no dict, which counts as a response
C18_WitnessProvider ==
    /\ AnalyzeDone
    /\ unit_in.env.generate_content.kind = "json_other"
    /\ unit_out.chain = <<"gemini">>
    /\ unit_out.outcome = "returned"
    /\ unit_out.result.engine_used = "gemini"

(***************************************************************************)
(* Two concurrent analyze calls with one fingerprint                       *)
(*                                                                         *)
(* unit_out[p] is call p: its pc, the result it holds, whether it ran the  *)
(* compute path, and whether another call wrote the file between this      *)
(* call's open() and its json.dump.  analyze takes no lock, so the steps   *)
(* of the two calls interleave freely.  The diskcache store sets an entry  *)
(* in one transaction; the file store opens the file for writing, which    *)
(* empties it, and then writes the text.                                   *)
(***************************************************************************)

MaxRaceClock == 1

RaceCalls == {1, 2}

RaceKey(at) == cache_key_of(Self(Acme), CostQuery, QuietDataset, at)

InitRace ==
    /\ cache_use_diskcache \in BOOLEAN
    /\ gemini_available = FALSE
    /\ cache_store = {}
    /\ clock = 0
    /\ log = <<>>
    /\ n_calls = 0
    /\ unit = "race"
    /\ unit_in = <<>>
    /\ unit_done = FALSE
    /\ unit_out = [p \in RaceCalls |->
                    [pc |-> "read", result |-> NoResult, computed |-> FALSE, overlaid |-> FALSE]]

\* lines 102-110: the key is made and the cache is read
RaceRead(p) ==
    /\ unit = "race"
    /\ unit_out[p].pc = "read"
    /\ LET cached == cache_get(cache_store, cache_use_diskcache, RaceKey(clock), clock, FALSE)
       IN  unit_out' = [unit_out EXCEPT ![p] =
                IF cached.found
                THEN [@ EXCEPT !.pc = "done", !.result = cached.value]
                ELSE [@ EXCEPT !.pc = "compute"]]
    /\ n_calls' = n_calls + 1
    /\ UNCHANGED <<unit, unit_in, unit_done, cache_use_diskcache, gemini_available,
                   cache_store, clock, log>>

\* lines 112-167: the compute path up to the result
RaceCompute(p) ==
    /\ unit = "race"
    /\ unit_out[p].pc = "compute"
    /\ LET out == compute(Self(Acme), {}, clock, RaceKey(clock), CostQuery, QuietDataset, 2,
                          CacheEnv("ok"))
       IN  unit_out' = [unit_out EXCEPT ![p] =
                [@ EXCEPT !.pc = "write", !.result = out.result, !.computed = TRUE]]
    /\ UNCHANGED <<unit, unit_in, unit_done, engine_vars>>

\* line 169 with the diskcache store: one transaction
RaceSet(p) ==
    /\ unit = "race"
    /\ unit_out[p].pc = "write"
    /\ cache_use_diskcache
    /\ cache_store' = cache_set(cache_store, TRUE, RaceKey(unit_out[p].result.timestamp),
                                unit_out[p].result, clock, TicksPerDay, "none")
    /\ unit_out' = [unit_out EXCEPT ![p].pc = "done"]
    /\ UNCHANGED <<unit, unit_in, unit_done, cache_use_diskcache, gemini_available,
                   clock, log, n_calls>>

\* line 169 with the file store, first half: open(path, "w") empties the file
RaceOpen(p) ==
    /\ unit = "race"
    /\ unit_out[p].pc = "write"
    /\ ~cache_use_diskcache
    /\ cache_store' = cache_set(cache_store, FALSE, RaceKey(unit_out[p].result.timestamp),
                                unit_out[p].result, clock, TicksPerDay, "torn")
    /\ unit_out' = [unit_out EXCEPT ![p].pc = "dump", ![p].overlaid = FALSE]
    /\ UNCHANGED <<unit, unit_in, unit_done, cache_use_diskcache, gemini_available,
                   clock, log, n_calls>>

\* second half: json.dump writes the text from the start of the file. When the
\* other call has written the file since this call opened it, the two texts
\* overlay: the file holds this call's text, or this text followed by the tail
\* of the longer other text, which does not parse.
RaceDump(p, fault) ==
    /\ unit = "race"
    /\ unit_out[p].pc = "dump"
    /\ ~cache_use_diskcache
    /\ fault = "torn" => unit_out[p].overlaid
    /\ cache_store' = cache_set(cache_store, FALSE, RaceKey(unit_out[p].result.timestamp),
                                unit_out[p].result, clock, TicksPerDay, fault)
    /\ unit_out' = [q \in RaceCalls |->
                      IF q = p THEN [unit_out[q] EXCEPT !.pc = "done"]
                      ELSE IF unit_out[q].pc = "dump" THEN [unit_out[q] EXCEPT !.overlaid = TRUE]
                      ELSE unit_out[q]]
    /\ UNCHANGED <<unit, unit_in, unit_done, cache_use_diskcache, gemini_available,
                   clock, log, n_calls>>

RaceTick ==
    /\ unit = "race"
    /\ clock < MaxRaceClock
    /\ clock' = clock + 1
    /\ UNCHANGED <<unit_vars, cache_use_diskcache, gemini_available, cache_store, log, n_calls>>

NextRace ==
    \/ \E p \in RaceCalls : RaceRead(p) \/ RaceCompute(p) \/ RaceSet(p) \/ RaceOpen(p)
    \/ \E p \in RaceCalls, fault \in {"none", "torn"} : RaceDump(p, fault)
    \/ RaceTick

SpecRace == InitRace /\ [][NextRace]_vars

RaceBothComputed ==
    /\ unit = "race"
    /\ \A p \in RaceCalls : unit_out[p].pc = "done" /\ unit_out[p].computed

\* C19 (as claimed): when two concurrent calls with one fingerprint have both
\* missed, computed and written, the entry under their key is the result of one
\* of the two.
C19_EntryIsOneResult ==
    RaceBothComputed =>
        \E e \in cache_store, p \in RaceCalls :
            /\ e.slot = store_slot(cache_use_diskcache, RaceKey(clock))
            /\ e.readable
            /\ SpecSameAsJson(e.value, unit_out[p].result)

(***************************************************************************)
(* enhanced_analysis.run_enhanced_analysis                                 *)
(*                                                                         *)
(* unit_out.object is the dict that analyze returned, as the caller's      *)
(* statements have left it (model_result and merged name this one dict);   *)
(* unit_out.constructed is its value when analyze returned; unit_out.later *)
(* is what a later unforced analyze call for the same request returned.    *)
(***************************************************************************)

MaxEnhanceRecords == 2

EnhanceQuery == CostQuery

\* a negative total makes the statistical pass synthesize an entry
EnhanceRecords ==
    LET base == {[service_name |-> "EC2", cost |-> 10], [service_name |-> "EC2", cost |-> -5]}
        withId == base \cup {[service_name |-> "EC2", cost |-> -5, resource_id |-> "i-1"]}
    IN  withId \cup { r @@ [anomaly_flag |-> TRUE] : r \in base }
               \cup { r @@ [anomaly_score |-> 8] : r \in withId }
               \cup {[service_name |-> "EC2", cost |-> 10, anomaly_score |-> 9]}

\* compute_weekly_cost_change for fewer than 14 dated records
compute_weekly_cost_change(dataset) == [week_over_week_change |-> "None"]

\* merged["summary"].setdefault(...) twice, then merged["summary"].update(...):
\* the keys "records" and "total_cost_usd" are there already
update_summary(object, dataset) ==
    [object EXCEPT !.summary = compute_weekly_cost_change(dataset) @@ @]

\* merged["ai_insight"] = ai_insight, or the text of the except branch
set_ai_insight(object) == [ai_insight |-> "insight"] @@ object

InitEnhance ==
    /\ cache_use_diskcache \in BOOLEAN
    /\ gemini_available = FALSE
    /\ cache_store = {}
    /\ clock = 0
    /\ log = <<>>
    /\ n_calls = 0
    /\ unit = "run_enhanced_analysis"
    /\ unit_in \in { [dataset |-> d] : d \in SeqsUpTo(EnhanceRecords, MaxEnhanceRecords) \ {<<>>} }
    /\ unit_done = FALSE
    /\ unit_out = [pc |-> "analyze", object |-> NoResult, constructed |-> NoResult,
                   later |-> NoResult]

\* model_result = engine.analyze(query, raw_data=dataset, ..., force_refresh=True)
EnhanceAnalyze ==
    /\ unit = "run_enhanced_analysis"
    /\ unit_out.pc = "analyze"
    /\ LET out == analyze(Self(DefaultTenant), cache_store, clock, EnhanceQuery,
                          RawList(unit_in.dataset), 2, TRUE, CacheEnv("ok"))
       IN  /\ cache_store' = out.store
           /\ unit_out' = [unit_out EXCEPT !.pc = "merge", !.object = out.result,
                                           !.constructed = out.result]
    /\ n_calls' = n_calls + 1
    /\ UNCHANGED <<unit, unit_in, unit_done, cache_use_diskcache, gemini_available, clock, log>>

\* merged = merge_model_and_explicit_anomalies(model_result, explicit_anoms)
EnhanceMerge ==
    /\ unit = "run_enhanced_analysis"
    /\ unit_out.pc = "merge"
    /\ unit_out' = [unit_out EXCEPT
            !.pc = "summary",
            !.object = merge_model_and_explicit_anomalies(@, extract_explicit_anomalies(unit_in.dataset))]
    /\ UNCHANGED <<unit, unit_in, unit_done, engine_vars>>

EnhanceSummary ==
    /\ unit = "run_enhanced_analysis"
    /\ unit_out.pc = "summary"
    /\ unit_out' = [unit_out EXCEPT !.pc = "insight", !.object = update_summary(@, unit_in.dataset)]
    /\ UNCHANGED <<unit, unit_in, unit_done, engine_vars>>

EnhanceInsight ==
    /\ unit = "run_enhanced_analysis"
    /\ unit_out.pc = "insight"
    /\ unit_out' = [unit_out EXCEPT !.pc = "returned", !.object = set_ai_insight(@)]
    /\ UNCHANGED <<unit, unit_in, unit_done, engine_vars>>

\* a later analyze call for the same request, not forced
EnhanceLater ==
    /\ unit = "run_enhanced_analysis"
    /\ unit_out.pc = "returned"
    /\ ~unit_done
    /\ LET out == analyze(Self(DefaultTenant), cache_store, clock, EnhanceQuery,
                          RawList(unit_in.dataset), 2, FALSE, CacheEnv("ok"))
       IN  /\ cache_store' = out.store
           /\ unit_out' = [unit_out EXCEPT !.later = out.result]
    /\ unit_done' = TRUE
    /\ n_calls' = n_calls + 1
    /\ UNCHANGED <<unit, unit_in, cache_use_diskcache, gemini_available, clock, log>>

EnhanceTick ==
    /\ unit = "run_enhanced_analysis"
    /\ clock < MaxRaceClock
    /\ clock' = clock + 1
    /\ UNCHANGED <<unit_vars, cache_use_diskcache, gemini_available, cache_store, log, n_calls>>

NextEnhance ==
    \/ EnhanceAnalyze \/ EnhanceMerge \/ EnhanceSummary \/ EnhanceInsight \/ EnhanceLater
    \/ EnhanceTick

SpecEnhance == InitEnhance /\ [][NextEnhance]_vars

\* C20 (as claimed): the dict that analyze returned keeps the value it was
\* constructed with whatever its caller does, and a later cache hit under the
\* same key returns that value.
C20_NeverMutated ==
    (unit = "run_enhanced_analysis" /\ unit_out.pc # "analyze") =>
        /\ unit_out.object = unit_out.constructed
        /\ unit_done => SpecSameAsJson(unit_out.later, unit_out.constructed)

(***************************************************************************)
(* Forecast metadata and forecast length                                   *)
(***************************************************************************)

\* C21 (as claimed): forecast_meta.method names the path that produced the
\* predictions: "none" exactly without dated records, the regression method only
\* when the regression produced them, "moving_average" whenever the moving
\* average produced them (regression unavailable, fewer than 3 dates, or failed).
C21_MethodNamesPath ==
    ForecastDone =>
        unit_out.forecast_meta.method =
            (IF SpecDays(unit_in.dataset) = {} THEN "none"
             ELSE IF SpecRegressionRan(unit_in) THEN "prophet"
             ELSE "moving_average")

\* C22: with at least one dated record and a positive horizon predicted_costs
\* has exactly horizon entries; without a dated record it is empty and the
\* method is "none".
C22_ForecastLength ==
    ForecastDone =>
        IF SpecDays(unit_in.dataset) # {}
        THEN unit_in.horizon_days > 0 =>
                Len(unit_out.forecast.predicted_costs) = unit_in.horizon_days
        ELSE /\ unit_out.forecast.predicted_costs = <<>>
             /\ unit_out.forecast_meta.method = "none"

\* a dated dataset extrapolated by the moving average over the whole horizon
C22_Witness ==
    /\ ForecastDone
    /\ SpecMovingAverageRan(unit_in)
    /\ unit_in.horizon_days = MaxHorizon
    /\ Len(unit_out.forecast.predicted_costs) = MaxHorizon

\* the regression path, and the dataset whose records carry no date
C22_WitnessRegression ==
    /\ ForecastDone
    /\ SpecRegressionRan(unit_in)
    /\ unit_in.horizon_days > 1
C22_WitnessUndated ==
    /\ ForecastDone
    /\ unit_in.dataset # <<>>
    /\ SpecDays(unit_in.dataset) = {}
    /\ unit_in.horizon_days > 0

(***************************************************************************)
(* GeminiProvider.invoke: normalization of the response text               *)
(*                                                                         *)
(* A text is a sequence of characters; the character U+2022 (the bullet)   *)
(* is written "U+2022". The texts are over an alphabet without the double  *)
(* quote and the comma, so the only JSON object a text can hold is the     *)
(* empty one and a JSON array holds at most one element.                   *)
(***************************************************************************)

IsDigit(c) == c \in {"0", "1", "2", "3", "4", "5", "6", "7", "8", "9"}

\* the number of consecutive digits of t from position i on
DigitsRun(t, i) ==
    IF i > Len(t) \/ ~IsDigit(t[i]) THEN 0
    ELSE LET stops == { j \in i..Len(t) : ~IsDigit(t[j]) }
         IN  IF stops = {} THEN Len(t) - i + 1
             ELSE (CHOOSE j \in stops : \A k \in stops : j <= k) - i

\* json's NUMBER_RE, (-?(?:0|[1-9]\d*))(\.\d+)?([eE][-+]?\d+)?, matching all of t
IsJsonNumber(t) ==
    LET i0 == IF t[1] = "-" THEN 2 ELSE 1
        int == IF i0 > Len(t) THEN 0
               ELSE IF t[i0] = "0" THEN 1 ELSE DigitsRun(t, i0)
        i1 == i0 + int
        frac == IF i1 <= Len(t) /\ t[i1] = "." /\ DigitsRun(t, i1 + 1) > 0
                THEN 1 + DigitsRun(t, i1 + 1) ELSE 0
        i2 == i1 + frac
        sign == IF i2 + 1 <= Len(t) /\ t[i2 + 1] \in {"+", "-"} THEN 1 ELSE 0
        exp == IF i2 <= Len(t) /\ t[i2] \in {"e", "E"} /\ DigitsRun(t, i2 + 1 + sign) > 0
               THEN 1 + sign + DigitsRun(t, i2 + 1 + sign) ELSE 0
    IN  int > 0 /\ i2 + exp = Len(t) + 1

JsonConstants ==
    {<<"t", "r", "u", "e">>, <<"f", "a", "l", "s", "e">>, <<"n", "u", "l", "l">>, <<"N", "a", "N">>, <<"I", "n", "f", "i", "n", "i", "t", "y">>, <<"-", "I", "n", "f", "i", "n", "i", "t", "y">>}

\* the kind of value the decoder reads from t, t without surrounding whitespace:
\* "dict", "list", "const", "number", or "error" when it raises JSONDecodeError
RECURSIVE json_value(_)
json_value(t) ==
    IF t = <<>> THEN "error"
    ELSE IF t[1] = "{"
    THEN IF Len(t) >= 2 /\ t[Len(t)] = "}" /\ \A i \in 2..(Len(t) - 1) : IsSpace(t[i])
         THEN "dict" ELSE "error"
    ELSE IF t[1] = "["
    THEN IF Len(t) >= 2 /\ t[Len(t)] = "]"
         THEN LET inner == Strip(SubSeq(t, 2, Len(t) - 1))
              IN  IF inner = <<>> THEN "list"
                  ELSE IF json_value(inner) # "error" THEN "list" ELSE "error"
         ELSE "error"
    ELSE IF t \in JsonConstants THEN "const"
    ELSE IF IsJsonNumber(t) THEN "number"
    ELSE "error"

\* json.loads(text)
json_loads(text) == json_value(Strip(text))

\* re.search(r'\{.*\}', response_text, re.DOTALL): from the first "{" to the
\* last "}" after it; <<>> when there is no match
json_match(text) ==
    LET opens == { i \in 1..Len(text) : text[i] = "{" }
        first == CHOOSE i \in opens : \A j \in opens : i <= j
        closes == { i \in 1..Len(text) : text[i] = "}" /\ i > first }
        last == CHOOSE i \in closes : \A j \in closes : j <= i
    IN  IF opens = {} THEN <<>>
        ELSE IF closes = {} THEN <<>>
        ELSE SubSeq(text, first, last)

\* the members of a set of positions in increasing order
Ascending(P) ==
    [k \in 1..Cardinality(P) |-> CHOOSE p \in P : Cardinality({ q \in P : q < p }) = k - 1]

\* text.split('\n')
split_lines(text) ==
    LET seps == Ascending({ i \in 1..Len(text) : text[i] = "\n" })
        n == Len(seps)
    IN  [k \in 1..(n + 1) |->
            SubSeq(text,
                   (IF k = 1 THEN 0 ELSE seps[k - 1]) + 1,
                   (IF k = n + 1 THEN Len(text) + 1 ELSE seps[k]) - 1)]

IsTerminator(c) == c \in {".", "!", "?"}

\* re.split(r'[.!?]+', text) without the empty strings it yields at either end
split_sentences(text) ==
    LET starts == Ascending({ i \in 1..Len(text) :
                      ~IsTerminator(text[i]) /\ (i = 1 \/ IsTerminator(text[i - 1])) })
        ends == Ascending({ i \in 1..Len(text) :
                      ~IsTerminator(text[i]) /\ (i = Len(text) \/ IsTerminator(text[i + 1])) })
    IN  [k \in 1..Len(starts) |-> SubSeq(text, starts[k], ends[k])]

\* the list a pattern adds for one stripped line: the captured text, stripped,
\* when the line matches and the text is longer than 10 characters
kept(rest) == IF Len(Strip(rest)) > 10 THEN <<Strip(rest)>> ELSE <<>>

\* r'^\d+[\.\)]\s*(.+)$'
match_numbered(line) ==
    LET k == DigitsRun(line, 1)
    IN  IF k > 0 /\ k + 1 <= Len(line) /\ line[k + 1] \in {".", ")"}
        THEN kept(SubSeq(line, k + 2, Len(line))) ELSE <<>>

\* the characters of the class [-...*] as the source file spells it: the bullet
\* U+2022 is stored as the three characters U+00E2 U+20AC U+00A2
BulletClass == {"-", "U+00E2", "U+20AC", "U+00A2", "*"}

\* r'^[-...*]\s*(.+)$'
match_bullet(line) ==
    IF line[1] \in BulletClass THEN kept(SubSeq(line, 2, Len(line))) ELSE <<>>

\* r'^Recommendation.*?:\s*(.+)$' with re.IGNORECASE
match_recommendation(line) ==
    LET colons == { i \in 15..Len(line) : line[i] = ":" }
        first == CHOOSE i \in colons : \A j \in colons : i <= j
    IN  IF /\ Len(line) >= 14
           /\ Lower(SubSeq(line, 1, 14)) = <<"r", "e", "c", "o", "m", "m", "e", "n", "d", "a", "t", "i", "o", "n">>
           /\ colons # {}
        THEN kept(SubSeq(line, first + 1, Len(line))) ELSE <<>>

Take(s, n) == SubSeq(s, 1, Min(n, Len(s)))

\* GeminiProvider._extract_recommendations_from_text
extract_recommendations_from_text(text) ==
    LET lines == split_lines(text)
        f[i \in 0..Len(lines)] ==
            IF i = 0 THEN <<>>
            ELSE LET line == Strip(lines[i])
                 IN  IF line = <<>> THEN f[i - 1]
                     ELSE f[i - 1] \o match_numbered(line) \o match_bullet(line)
                              \o match_recommendation(line)
        recommendations == f[Len(lines)]
        sentences == split_sentences(text)
        long == SelectSeq([k \in 1..Len(sentences) |-> Strip(sentences[k])],
                          LAMBDA s : Len(s) > 20)
    IN  IF recommendations = <<>> THEN Take(Take(long, 5), 10)
        ELSE Take(recommendations, 10)

NormalizedResponse(path, keys, intent, summary, recommendations, raw_text) ==
    [path |-> path, keys |-> keys, intent |-> intent, summary |-> summary,
     recommendations |-> recommendations, raw_text |-> raw_text]

\* the dict invoke returns for the response text: "parsed" (the text is a JSON
\* dict), "wrapped" (the text is another JSON value), "fragment" (a dict found
\* inside the text) or "synthesized"
invoke_text(response_text) ==
    LET parsed == json_loads(response_text)
        fragment == json_match(response_text)
        inner == IF fragment = <<>> THEN "error" ELSE json_loads(fragment)
    IN  IF parsed = "dict"
        THEN NormalizedResponse("parsed", {}, "", <<>>, <<>>, <<>>)
        ELSE IF parsed # "error"
        THEN NormalizedResponse("wrapped", {"result", "raw_text"}, "", <<>>, <<>>, response_text)
        ELSE IF inner = "dict"
        THEN NormalizedResponse("fragment", {}, "", <<>>, <<>>, <<>>)
        ELSE IF inner # "error"
        THEN NormalizedResponse("wrapped", {"result", "raw_text"}, "", <<>>, <<>>, response_text)
        ELSE NormalizedResponse("synthesized",
                 {"intent", "summary", "recommendations", "raw", "raw_text"},
                 "insight", Take(response_text, 500),
                 extract_recommendations_from_text(response_text), response_text)

(***************************************************************************)
(* Response texts                                                          *)
(***************************************************************************)

MaxTextParts == 2

EmptyObject == <<"{", "}">>
ObjectInList == <<"[", "{", "}", "]">>
NumberOne == <<"1">>
NumberedLine == <<"1", ".", " ", "R", "e", "s", "i", "z", "e", " ", "t", "h", "e", " ", "E", "C", "2", " ", "f", "l", "e", "e", "t", "\n">>
ShortDashLine == <<"-", " ", "S", "t", "o", "p", " ", "i", "d", "l", "e", "\n">>
StarLine == <<"*", " ", "D", "e", "l", "e", "t", "e", " ", "u", "n", "a", "t", "t", "a", "c", "h", "e", "d", " ", "v", "o", "l", "u", "m", "e", "s", "\n">>
BulletLine == <<"U+2022", " ", "S", "t", "o", "p", " ", "i", "d", "l", "e", " ", "i", "n", "s", "t", "a", "n", "c", "e", "s", " ", "n", "o", "w", "\n">>
RecommendationLine == <<"R", "E", "C", "O", "M", "M", "E", "N", "D", "A", "T", "I", "O", "N", " ", "2", ":", " ", "b", "u", "y", " ", "r", "e", "s", "e", "r", "v", "e", "d", " ", "i", "n", "s", "t", "a", "n", "c", "e", "s", "\n">>
LongSentence == <<"C", "o", "s", "t", "s", " ", "r", "o", "s", "e", " ", "s", "h", "a", "r", "p", "l", "y", " ", "i", "n", " ", "t", "h", "e", " ", "l", "a", "s", "t", " ", "w", "e", "e", "k", ".", " ">>
ShortSentence == <<"T", "o", "o", " ", "s", "h", "o", "r", "t", "!", " ">>

TextParts ==
    { EmptyObject, ObjectInList, NumberOne, NumberedLine, ShortDashLine, StarLine,
      BulletLine, RecommendationLine, LongSentence, ShortSentence, <<" ">> }

Repeat(s, n) == Flatten([i \in 1..n |-> s])

\* more than 500 characters, more than 10 numbered lines, more than 5 sentences
ResponseTexts ==
    { Flatten(parts) : parts \in SeqsUpTo(TextParts, MaxTextParts) }
        \cup { Repeat(LongSentence, 14), Repeat(NumberedLine, 11), Repeat(LongSentence, 6) }

InitText ==
    /\ EngineIdle
    /\ unit = "invoke"
    /\ unit_in \in [response_text : ResponseTexts]
    /\ unit_done = FALSE
    /\ unit_out = <<>>

ApplyText ==
    /\ unit = "invoke"
    /\ ~unit_done
    /\ unit_done' = TRUE
    /\ unit_out' = invoke_text(unit_in.response_text)
    /\ UNCHANGED <<unit, unit_in, engine_vars>>

SpecText == InitText /\ [][ApplyText]_vars

TextDone == unit = "invoke" /\ unit_done

\* the text is a structured object; the text holds one between its first "{"
\* and its last "}"
SpecIsObject(text) == json_loads(text) = "dict"
SpecHoldsObject(text) == json_match(text) # <<>> /\ json_loads(json_match(text)) = "dict"

\* a numbered, bullet or "Recommendation:" line, and the text it carries
SpecBullets == {"-", "*", "U+2022"}
SpecIsNumbered(line) ==
    DigitsRun(line, 1) > 0 /\ DigitsRun(line, 1) < Len(line)
        /\ line[DigitsRun(line, 1) + 1] \in {".", ")"}
SpecIsBullet(line) == line # <<>> /\ line[1] \in SpecBullets
SpecIsRecommendation(line) ==
    /\ Len(line) >= 14
    /\ Lower(SubSeq(line, 1, 14)) = <<"r", "e", "c", "o", "m", "m", "e", "n", "d", "a", "t", "i", "o", "n">>
    /\ \E i \in 15..Len(line) : line[i] = ":"
SpecCarried(line) ==
    IF SpecIsNumbered(line) THEN Strip(SubSeq(line, DigitsRun(line, 1) + 2, Len(line)))
    ELSE IF SpecIsBullet(line) THEN Strip(SubSeq(line, 2, Len(line)))
    ELSE LET c == CHOOSE i \in 15..Len(line) : line[i] = ":" /\ \A j \in 15..(i - 1) : line[j] # ":"
         IN  Strip(SubSeq(line, c + 1, Len(line)))
SpecPatternLines(text) ==
    SelectSeq([k \in 1..Len(split_lines(text)) |-> Strip(split_lines(text)[k])],
              LAMBDA line : (SpecIsNumbered(line) \/ SpecIsBullet(line) \/ SpecIsRecommendation(line))
                                /\ SpecCarried(line) # <<>>)
SpecLongSentences(text) ==
    SelectSeq([k \in 1..Len(split_sentences(text)) |-> Strip(split_sentences(text)[k])],
              LAMBDA s : Len(s) > 20)
SpecIsPrefix(s, t) == Len(s) <= Len(t) /\ s = SubSeq(t, 1, Len(s))

\* C23 (as claimed): the text is normalized by a direct parse as a structured
\* object, else by parsing the structured fragment embedded in it, and only
\* when both fail by synthesizing a response with intent "insight", the first
\* 500 characters as summary, and as recommendations the texts of the
\* numbered/bullet/"Recommendation:" lines or, when no line matches, the first
\* sentences longer than 20 characters, at most 10 items in either case.
C23_Normalization ==
    TextDone =>
        LET text == unit_in.response_text
            lines == SpecPatternLines(text)
            recs == unit_out.recommendations
        IN  IF SpecIsObject(text) THEN unit_out.path = "parsed"
            ELSE IF SpecHoldsObject(text) THEN unit_out.path = "fragment"
            ELSE /\ unit_out.path = "synthesized"
                 /\ unit_out.intent = "insight"
                 /\ unit_out.summary = Take(text, 500)
                 /\ Len(recs) <= 10
                 /\ IF lines # <<>>
                    THEN recs = Take([k \in 1..Len(lines) |-> SpecCarried(lines[k])], 10)
                    ELSE /\ SpecIsPrefix(recs, SpecLongSentences(text))
                         /\ SpecLongSentences(text) # <<>> => recs # <<>>

(***************************************************************************)
(* _dataset_summary over datasets of more than five services               *)
(***************************************************************************)

MaxTopRecords == 6

TopName(i) ==
    CASE i = 1 -> "EC2" [] i = 2 -> "S3" [] i = 3 -> "RDS" [] i = 4 -> "Lambda"
      [] i = 5 -> "EKS" [] i = 6 -> "SQS" [] i = 7 -> "SNS" [] OTHER -> "ECS"

\* record i names a service of its own or the service of the first record
TopDatasets ==
    UNION { { [i \in 1..n |-> [service_name |-> IF own[i] THEN TopName(i) ELSE TopName(1),
                               cost |-> costs[i]]] :
                own \in [1..n -> BOOLEAN], costs \in [1..n -> {1, 2}] } :
            n \in 0..MaxTopRecords }

InitTop ==
    /\ EngineIdle
    /\ unit = "dataset_summary_top"
    /\ unit_in \in { [dataset |-> d] : d \in TopDatasets }
    /\ unit_done = FALSE
    /\ unit_out = <<>>

ApplyTop ==
    /\ unit = "dataset_summary_top"
    /\ ~unit_done
    /\ unit_done' = TRUE
    /\ unit_out' = dataset_summary(unit_in.dataset)
    /\ UNCHANGED <<unit, unit_in, engine_vars>>

SpecTop == InitTop /\ [][ApplyTop]_vars

TopDone == unit = "dataset_summary_top" /\ unit_done

SpecTopServices(ds) == { ds[i].service_name : i \in 1..Len(ds) }
SpecTopTotal(ds, s) ==
    SeqSum([i \in 1..Len(ds) |-> IF ds[i].service_name = s THEN ds[i].cost ELSE 0])
SpecFirstOccurrence(ds, s) ==
    CHOOSE i \in 1..Len(ds) : ds[i].service_name = s /\ \A j \in 1..(i - 1) : ds[j].service_name # s

\* C24: top_services lists min(5, number of distinct services) (service, total)
\* pairs, in non-increasing order of total, services with equal totals in the
\* order of their first occurrence in the dataset, and no service left out has
\* a larger total than a listed one.
C24_TopServices ==
    TopDone =>
        LET ds == unit_in.dataset
            top == unit_out.top_services
            listed == { top[p].service : p \in 1..Len(top) }
        IN  /\ Len(top) = Min(5, Cardinality(SpecTopServices(ds)))
            /\ Cardinality(listed) = Len(top)
            /\ \A p \in 1..Len(top) :
                  /\ top[p].service \in SpecTopServices(ds)
                  /\ top[p].cost = SpecTopTotal(ds, top[p].service)
            /\ \A p, q \in 1..Len(top) :
                  p < q =>
                    \/ top[p].cost > top[q].cost
                    \/ /\ top[p].cost = top[q].cost
                       /\ SpecFirstOccurrence(ds, top[p].service)
                            < SpecFirstOccurrence(ds, top[q].service)
            /\ \A s \in SpecTopServices(ds) \ listed :
                  \A p \in 1..Len(top) : SpecTopTotal(ds, s) <= top[p].cost

\* six services, the first two with equal totals, and one service left out
C24_Witness ==
    /\ TopDone
    /\ Cardinality(SpecTopServices(unit_in.dataset)) > 5
    /\ Len(unit_out.top_services) = 5
    /\ unit_out.top_services[1].service = "EC2"
    /\ unit_out.top_services[1].cost = unit_out.top_services[2].cost
    /\ unit_out.top_services[5].cost = 1

\* a service met twice ties with a service met once after it and is listed first
C24_WitnessRepeated ==
    /\ TopDone
    /\ Len(unit_in.dataset) = 4
    /\ unit_in.dataset[4].service_name = "EC2"
    /\ Len(unit_out.top_services) = 3
    /\ unit_out.top_services[1] = [py_type |-> "tuple", service |-> "EC2", cost |-> 2]
    /\ unit_out.top_services[2] = [py_type |-> "tuple", service |-> "RDS", cost |-> 2]

(***************************************************************************)
(* Engines of several tenants over one cache directory                     *)
(*                                                                         *)
(* unit_out.owners holds, for every entry written so far, the slot and the *)
(* tenant of the engine that wrote it; unit_out.last describes the latest  *)
(* call.                                                                   *)
(***************************************************************************)

TenantIds == {<<"a", "/", "b">>, <<"a", "_", "b">>, <<"a", "b">>}

InitTenants ==
    /\ cache_use_diskcache \in BOOLEAN
    /\ gemini_available = TRUE
    /\ cache_store = {}
    /\ clock = 0
    /\ log = <<>>
    /\ n_calls = 0
    /\ unit = "tenants"
    /\ unit_in = <<>>
    /\ unit_done = FALSE
    /\ unit_out = [owners |-> {},
                   last |-> [tenant_id |-> <<>>, writers |-> {}, cache_hit |-> FALSE,
                             computed |-> FALSE]]

\* LLMEngine(tenant_id).analyze(query, raw_data=QuietDataset, force_refresh)
TenantAnalyze(tenant_id, query, force_refresh) ==
    /\ unit = "tenants"
    /\ n_calls < MaxCalls
    /\ LET self == Self(tenant_id)
           out == analyze(self, cache_store, clock, query, RawList(QuietDataset), 2,
                          force_refresh, CacheEnv("ok"))
           slot == store_slot(cache_use_diskcache, cache_key_of(self, query, QuietDataset, clock))
           writers == { o.tenant_id : o \in { w \in unit_out.owners : w.slot = slot } }
       IN  /\ cache_store' = out.store
           /\ unit_out' =
                 [owners |-> IF out.computed
                             THEN unit_out.owners \cup {[slot |-> slot, tenant_id |-> tenant_id]}
                             ELSE unit_out.owners,
                  last |-> [tenant_id |-> tenant_id, writers |-> writers,
                            cache_hit |-> out.cache_hit, computed |-> out.computed]]
    /\ n_calls' = n_calls + 1
    /\ UNCHANGED <<unit, unit_in, unit_done, cache_use_diskcache, gemini_available, clock, log>>

TenantTick ==
    /\ unit = "tenants"
    /\ clock < MaxClock
    /\ clock' = clock + 1
    /\ UNCHANGED <<unit_vars, cache_use_diskcache, gemini_available, cache_store, log, n_calls>>

NextTenants ==
    \/ \E tenant_id \in TenantIds, query \in CacheQueries, force_refresh \in BOOLEAN :
          TenantAnalyze(tenant_id, query, force_refresh)
    \/ TenantTick

SpecTenants == InitTenants /\ [][NextTenants]_vars

\* C25 (as claimed): engines of distinct tenants never read or overwrite the
\* same stored entry, in the diskcache store and in the JSON-file store: every
\* entry has been written by one tenant only, and a call is served from, or
\* writes over, an entry of its own tenant only.
C25_TenantSeparation ==
    unit = "tenants" =>
        /\ \A v, w \in unit_out.owners : v.slot = w.slot => v.tenant_id = w.tenant_id
        /\ (unit_out.last.cache_hit \/ unit_out.last.computed) =>
              unit_out.last.writers \subseteq {unit_out.last.tenant_id}

\* the part of the claim that the diskcache store keeps
C25_SeparationInDiskcache == cache_use_diskcache => C25_TenantSeparation

(***************************************************************************)
(* The per-service totals of _detect_anomalies and of _dataset_summary     *)
(***************************************************************************)

InitTotals ==
    /\ EngineIdle
    /\ unit = "service_totals"
    /\ unit_in \in { [dataset |-> d] : d \in SeqsUpTo(SummaryRecords, MaxSummaryRecords) }
    /\ unit_done = FALSE
    /\ unit_out = <<>>

\* both passes of analyze over the loaded dataset
ApplyTotals ==
    /\ unit = "service_totals"
    /\ ~unit_done
    /\ unit_done' = TRUE
    /\ unit_out' = [by_service |-> detect_by_service(unit_in.dataset),
                    service_breakdown |-> dataset_summary(unit_in.dataset).service_breakdown]
    /\ UNCHANGED <<unit, unit_in, engine_vars>>

SpecTotals == InitTotals /\ [][ApplyTotals]_vars

TotalsDone == unit = "service_totals" /\ unit_done

\* C26 (as claimed): for every dataset the per-service totals of the anomaly
\* detector's statistical pass are the same mapping as the summary's
\* service_breakdown, also for records that name the service under "service"
\* or name none.
C26_SameTotals ==
    TotalsDone => Range(unit_out.by_service) = Range(unit_out.service_breakdown)

\* the part that holds: the mappings agree when no record relies on "service"
C26_SameTotalsWithoutAlias ==
    (TotalsDone /\ \A i \in 1..Len(unit_in.dataset) :
                      Get(unit_in.dataset[i], "service_name", "") # ""
                          \/ Get(unit_in.dataset[i], "service", "") = "")
        => unit_out.by_service = unit_out.service_breakdown

(***************************************************************************)
(* The statistical pass over one to eleven services                        *)
(***************************************************************************)

MaxSigmaTotal == 12

\* n services: the first n - 1 total a dollars each, the last one b dollars
SigmaDataset(n, a, b) ==
    OnePerService(ServiceNames, [i \in 1..n |-> IF i < n THEN a ELSE b])

InitSigma ==
    /\ EngineIdle
    /\ unit = "detect_services"
    /\ unit_in \in { [dataset |-> SigmaDataset(n, a, b), rounds_below |-> r] :
                        n \in 1..Len(ServiceNames), a \in {0, 1}, b \in 0..MaxSigmaTotal,
                        r \in BOOLEAN }
    /\ unit_done = FALSE
    /\ unit_out = <<>>

ApplySigma ==
    /\ unit = "detect_services"
    /\ ~unit_done
    /\ unit_done' = TRUE
    /\ unit_out' = detect_anomalies(unit_in.dataset, unit_in.rounds_below)
    /\ UNCHANGED <<unit, unit_in, engine_vars>>

SpecSigma == InitSigma /\ [][ApplySigma]_vars

SigmaDone == unit = "detect_services" /\ unit_done

SpecNoneSynthesized == \A j \in 1..Len(unit_out.anomalies) : ~IsSynthesized(unit_out.anomalies[j])

\* C27 (as claimed): for a dataset with at most 10 distinct services whose
\* totals are not all equal (sigma > 0), the statistical pass synthesizes no
\* service-level anomaly.
C27_NoSynthesisUpToTen ==
    (SigmaDone /\ Cardinality(SpecServices(unit_in.dataset)) <= 10
               /\ SpecSigmaPositive(unit_in.dataset))
        => SpecNoneSynthesized

\* what holds: the same with at most 9 services, where a total stays below
\* mean + 3 sigma by a margin no rounding bridges
C27_NoSynthesisUpToNine ==
    (SigmaDone /\ Cardinality(SpecServices(unit_in.dataset)) <= 9
               /\ SpecSigmaPositive(unit_in.dataset))
        => SpecNoneSynthesized

(***************************************************************************)
(* anomaly_summary.count and the order of the anomaly list                 *)
(***************************************************************************)

SpecCountIsLength(result) == result.anomaly_summary.count = Len(result.anomalies)

\* the entries up to some position are records of the dataset in dataset
\* order, the entries after it are synthesized
SpecRecordsThenSynthesized(anomalies, ds) ==
    \E k \in 0..Len(anomalies) :
        /\ \A j \in (k + 1)..Len(anomalies) : IsSynthesized(anomalies[j])
        /\ \A j \in 1..k : ~IsSynthesized(anomalies[j])
        /\ \E f \in [1..k -> 1..Len(ds)] :
              /\ \A j \in 1..k : anomalies[j] = ds[f[j]]
              /\ \A i, j \in 1..k : i < j => f[i] < f[j]

\* C28: in the result analyze returns, computed or served from the cache, and
\* in the result of merge_model_and_explicit_anomalies, anomaly_summary.count is
\* the length of the anomalies list; in analyze's list the per-record entries
\* come first, in dataset order, and the synthesized entries after them.
C28_CountAndOrder ==
    unit = "run_enhanced_analysis" =>
        /\ unit_out.pc # "analyze" =>
              /\ SpecCountIsLength(unit_out.constructed)
              /\ SpecRecordsThenSynthesized(unit_out.constructed.anomalies, unit_in.dataset)
        /\ unit_out.pc \notin {"analyze", "merge"} => SpecCountIsLength(unit_out.object)
        /\ unit_done =>
              /\ SpecCountIsLength(unit_out.later)
              /\ SpecRecordsThenSynthesized(unit_out.later.anomalies, unit_in.dataset)

\* analyze listed a record and then a synthesized entry, the merge added an
\* anomaly, and the later call was served from the cache
C28_Witness ==
    /\ unit = "run_enhanced_analysis"
    /\ unit_done
    /\ Len(unit_in.dataset) = 2
    /\ Len(unit_out.constructed.anomalies) = 2
    /\ ~IsSynthesized(unit_out.constructed.anomalies[1])
    /\ IsSynthesized(unit_out.constructed.anomalies[2])
    /\ unit_out.object.anomaly_summary.count = 3
    /\ SpecSameAsJson(unit_out.later, unit_out.constructed)

(***************************************************************************)
(* The daily job run again and again over one result table                 *)
(*                                                                         *)
(* unit_in is what the current run met in the usage table. unit_out is the *)
(* result table and the run: pc, the query at hand, the date the run took, *)
(* the id AUTOINCREMENT hands out next, and, for the properties, the table *)
(* as the run found it, the clock at its start, the number of analyze      *)
(* calls it made and the queries it stored.                                *)
(***************************************************************************)

MaxRuns == 2
MaxDailyClock == 2

\* the row as stored: id is the AUTOINCREMENT key, analysis_result the dumped result
stored_row(id, analysis_date, query_text, analysis_result) ==
    result_row(analysis_date, query_text, analysis_result)
        @@ [id |-> id, analysis_result |-> json_round_trip(analysis_result)]

InitDaily ==
    /\ cache_use_diskcache \in BOOLEAN
    /\ gemini_available = TRUE
    /\ cache_store = {}
    /\ clock = 0
    /\ log = <<>>
    /\ n_calls = 0
    /\ unit = "daily_job"
    /\ unit_in = "empty"
    /\ unit_done = FALSE
    /\ unit_out = [pc |-> "idle", i |-> 0, rows |-> {}, next_id |-> 1,
                   analysis_date |-> iso_date(0), run |-> 0, before |-> {},
                   started |-> 0, invoked |-> 0, stored |-> {}]

\* the cron trigger fires: the run reads the usage table and takes the date
DailyStart(daily_usage) ==
    /\ unit = "daily_job"
    /\ unit_out.pc = "idle"
    /\ unit_out.run < MaxRuns
    /\ unit_in' = daily_usage
    /\ unit_done' = FALSE
    /\ unit_out' = [unit_out EXCEPT
                      !.pc = IF daily_usage = "rows" THEN "loop" ELSE "done",
                      !.i = IF daily_usage = "rows" THEN 1 ELSE 0,
                      !.analysis_date = IF daily_usage = "rows" THEN iso_date(clock) ELSE @,
                      !.run = @ + 1,
                      !.before = unit_out.rows,
                      !.started = clock,
                      !.invoked = 0,
                      !.stored = {}]
    /\ UNCHANGED <<unit, engine_vars>>

\* one pass of the loop
DailyQuery(analysis_fails, insert_fails) ==
    /\ unit = "daily_job"
    /\ unit_out.pc = "loop"
    /\ LET i == unit_out.i
           out == analyze(Self(DefaultTenant), cache_store, clock, BatchQueries[i],
                          RawList(BatchRecords), BatchHorizonDays, TRUE,
                          BatchEnv(analysis_fails))
           job == [unit_out EXCEPT !.invoked = @ + 1]
           done == IF i < Len(BatchQueries) THEN [job EXCEPT !.i = i + 1]
                   ELSE [job EXCEPT !.pc = "done"]
       IN  /\ cache_store' = out.store
           /\ unit_out' =
                IF out.outcome = "raised" \/ insert_fails
                THEN done
                ELSE [done EXCEPT
                        !.rows = insert_or_replace(@, stored_row(job.next_id, job.analysis_date,
                                                                 BatchQueries[i], out.result)),
                        !.next_id = @ + 1,
                        !.stored = @ \cup {i}]
    /\ n_calls' = n_calls + 1
    /\ UNCHANGED <<unit, unit_in, unit_done, cache_use_diskcache, gemini_available, clock, log>>

\* the run returns
DailyReturn ==
    /\ unit = "daily_job"
    /\ unit_out.pc = "done"
    /\ unit_out' = [unit_out EXCEPT !.pc = "idle"]
    /\ unit_done' = TRUE
    /\ UNCHANGED <<unit, unit_in, engine_vars>>

\* a day passes between two runs; a run takes its date once, at its start
DailyTick ==
    /\ unit = "daily_job"
    /\ unit_out.pc = "idle"
    /\ clock + TicksPerDay <= MaxDailyClock
    /\ clock' = clock + TicksPerDay
    /\ UNCHANGED <<unit_vars, cache_use_diskcache, gemini_available, cache_store, log, n_calls>>

NextDaily ==
    \/ \E daily_usage \in {"unreadable", "empty", "rows"} : DailyStart(daily_usage)
    \/ \E analysis_fails, insert_fails \in BOOLEAN : DailyQuery(analysis_fails, insert_fails)
    \/ DailyReturn
    \/ DailyTick

SpecDaily == InitDaily /\ [][NextDaily]_vars

\* a run has returned and none has started since
DailyReturned == unit = "daily_job" /\ unit_done

SpecRowsOf(rows, analysis_date, query_text) ==
    { r \in rows : r.analysis_date = analysis_date /\ r.query_text = query_text }

SpecOneRowPerKey(rows) ==
    \A r1, r2 \in rows :
        (r1.analysis_date = r2.analysis_date /\ r1.query_text = r2.query_text) => r1 = r2

\* the rows of the run's date and query i are exactly one row written in this run
SpecReplaced(job, i) ==
    \E r \in job.rows :
        /\ SpecRowsOf(job.rows, job.analysis_date, BatchQueries[i]) = {r}
        /\ \A b \in job.before : r.id > b.id
        /\ r.analysis_result.timestamp >= job.started
        /\ \A j \in job.stored : j < i =>
              \E e \in SpecRowsOf(job.rows, job.analysis_date, BatchQueries[j]) : e.id < r.id

\* C29: whatever runs came before, the result table has at most one row per
\* (analysis_date, query_text); a run leaves the rows of other dates as it found
\* them; when it has returned, each query it analyzed and stored has as its row
\* of the run's date the one this run wrote, and each other query has the row
\* it had; a run that finds no usage rows calls analyze not once and leaves the
\* table as it found it.
C29_OneRowPerDateAndQuery ==
    unit = "daily_job" =>
        /\ SpecOneRowPerKey(unit_out.rows)
        /\ { r \in unit_out.rows : r.analysis_date # unit_out.analysis_date }
              = { r \in unit_out.before : r.analysis_date # unit_out.analysis_date }
        /\ DailyReturned =>
              \A i \in 1..Len(BatchQueries) :
                  IF i \in unit_out.stored THEN SpecReplaced(unit_out, i)
                  ELSE SpecRowsOf(unit_out.rows, unit_out.analysis_date, BatchQueries[i])
                         = SpecRowsOf(unit_out.before, unit_out.analysis_date, BatchQueries[i])
        /\ unit_in # "rows" => unit_out.invoked = 0 /\ unit_out.rows = unit_out.before

\* a second run on the same date replaced the rows of two queries, left the row
\* of the query whose analysis failed, and the table has three rows
C29_Witness ==
    /\ DailyReturned
    /\ unit_out.run = 2
    /\ unit_out.stored = {1, 3}
    /\ Cardinality(unit_out.before) = 3
    /\ Cardinality(unit_out.rows) = 3
    /\ \A b \in unit_out.before : b.analysis_date = unit_out.analysis_date
    /\ Cardinality(unit_out.rows \cap unit_out.before) = 1

\* a run on the next day added its rows and left those of the day before
C29_WitnessOtherDate ==
    /\ DailyReturned
    /\ unit_out.run = 2
    /\ Cardinality(unit_out.before) = 3
    /\ Cardinality(unit_out.rows) = 6
    /\ unit_out.before \subseteq unit_out.rows

\* a run that found the usage table empty left the rows of the run before
C29_WitnessNoUsage ==
    /\ DailyReturned
    /\ unit_out.run = 2
    /\ unit_in = "empty"
    /\ Cardinality(unit_out.rows) = 3

(***************************************************************************)
(* sagemaker_models: SageMakerClientWrapper.invoke_endpoint and            *)
(* SageMakerEvaluator.analyze                                              *)
(*                                                                         *)
(* unit_in is the configuration and the input: SAGEMAKER_MAX_RETRIES, the  *)
(* endpoint ARN, whether boto3 built its client, and input_data. unit_out  *)
(* is the call: pc, the attempt at hand, the endpoint calls and sleeps so  *)
(* far in order, how invoke_endpoint ended and with what output, and what  *)
(* analyze returned. What each endpoint call meets is drawn when it is     *)
(* made.                                                                   *)
(***************************************************************************)

MAX_RETRIES == 3
BACKOFF_BASE == 2

\* the values SAGEMAKER_MAX_RETRIES is given: 0..MaxRetriesEnv
MaxRetriesEnv == 3

RECURSIVE Pow(_, _)
Pow(b, e) == IF e = 0 THEN 1 ELSE b * Pow(b, e - 1)

\* mutant: the sleep is taken after every failed attempt
backs_off_after_every_attempt(attempt, max_retries) == TRUE

\* if attempt < MAX_RETRIES: time.sleep(...)
backs_off(attempt, max_retries) == attempt < max_retries

\* arn.split("/")[-1] if "/" in arn else arn
extract_endpoint_name(arn) ==
    LET slashes == { i \in 1..Len(arn) : arn[i] = "/" }
        last == CHOOSE i \in slashes : \A j \in slashes : j <= i
    IN  IF arn = <<>> THEN <<>>
        ELSE IF slashes = {} THEN arn
        ELSE SubSeq(arn, last + 1, Len(arn))

\* json.loads(raw), a non-dict wrapped, text that is no JSON stripped and marked
parse_output(raw) ==
    LET parsed == json_loads(raw)
    IN  IF parsed = "error" THEN [result |-> [text |-> Strip(raw)], raw_output |-> TRUE]
        ELSE IF parsed = "dict" THEN [dict |-> Strip(raw)]
        ELSE [result |-> [json |-> Strip(raw)]]

fallback_response(input_data) ==
    [intent |-> "insight",
     anomalies |-> <<>>,
     forecast |-> [predicted_costs |-> <<>>, horizon_days |-> 0],
     recommendations |-> <<>>,
     message |-> "Fallback response - SageMaker endpoint not available",
     input |-> input_data]

EndpointArns == {<<>>, <<"e", "p">>, <<"a", "r", "n", "/", "e", "p">>, <<"a", "r", "n", "/">>}

PaddedText == <<" ", "o", "k", " ">>

\* what one client.invoke_endpoint call meets
EndpointOutcomes ==
    { [kind |-> "ok", body |-> b] : b \in {EmptyObject, ObjectInList, PaddedText} }
        \cup { [kind |-> k, body |-> <<>>] : k \in {"BotoCoreError", "ClientError", "UnicodeDecodeError"} }

SmCall(attempt, outcome) == [kind |-> "call", attempt |-> attempt, outcome |-> outcome.kind, seconds |-> 0]
SmSleep(attempt) ==
    [kind |-> "sleep", attempt |-> attempt, outcome |-> "n/a", seconds |-> Pow(BACKOFF_BASE, attempt)]

NoAnswer == [kind |-> "none"]

InitSageMaker ==
    /\ EngineIdle
    /\ unit = "SageMakerEvaluator.analyze"
    /\ unit_in \in [MAX_RETRIES : 0..MaxRetriesEnv,
                    endpoint_arn : EndpointArns,
                    boto_client : BOOLEAN,
                    input_data : {[query |-> "cost"]}]
    /\ unit_done = FALSE
    /\ unit_out = [pc |-> "analyze", attempt |-> 0, events |-> <<>>, wrapper |-> "none",
                   raw |-> <<>>, answer |-> NoAnswer, raised |-> FALSE]

\* analyze up to the call of the wrapper: no endpoint name, no wrapper
SmAnalyze ==
    /\ unit = "SageMakerEvaluator.analyze"
    /\ unit_out.pc = "analyze"
    /\ IF extract_endpoint_name(unit_in.endpoint_arn) = <<>>
       THEN /\ unit_out' = [unit_out EXCEPT !.pc = "done",
                                            !.answer = fallback_response(unit_in.input_data)]
            /\ unit_done' = TRUE
       ELSE /\ unit_out' = [unit_out EXCEPT !.pc = "invoke"]
            /\ UNCHANGED unit_done
    /\ UNCHANGED <<unit, unit_in, engine_vars>>

\* invoke_endpoint up to its first attempt
SmInvoke ==
    /\ unit = "SageMakerEvaluator.analyze"
    /\ unit_out.pc = "invoke"
    /\ unit_out' =
         IF ~unit_in.boto_client \/ unit_in.MAX_RETRIES < 1
         THEN [unit_out EXCEPT !.pc = "handler", !.wrapper = "RuntimeError"]
         ELSE [unit_out EXCEPT !.pc = "attempt", !.attempt = 1]
    /\ UNCHANGED <<unit, unit_in, unit_done, engine_vars>>

\* the try block of one attempt
SmAttempt(outcome) ==
    /\ unit = "SageMakerEvaluator.analyze"
    /\ unit_out.pc = "attempt"
    /\ LET called == [unit_out EXCEPT !.events = Append(@, SmCall(unit_out.attempt, outcome))]
       IN  unit_out' =
             CASE outcome.kind = "ok" ->
                    [called EXCEPT !.pc = "parse", !.wrapper = "returned", !.raw = outcome.body]
               [] outcome.kind \in {"BotoCoreError", "ClientError"} ->
                    [called EXCEPT !.pc = "failed"]
               [] OTHER ->
                    [called EXCEPT !.pc = "handler", !.wrapper = outcome.kind]
    /\ UNCHANGED <<unit, unit_in, unit_done, engine_vars>>

\* the except block of one attempt, and the raise after the last
SmFailed ==
    /\ unit = "SageMakerEvaluator.analyze"
    /\ unit_out.pc = "failed"
    /\ LET slept == IF backs_off(unit_out.attempt, unit_in.MAX_RETRIES)
                    THEN [unit_out EXCEPT !.events = Append(@, SmSleep(unit_out.attempt))]
                    ELSE unit_out
       IN  unit_out' =
             IF unit_out.attempt < unit_in.MAX_RETRIES
             THEN [slept EXCEPT !.pc = "attempt", !.attempt = @ + 1]
             ELSE [slept EXCEPT !.pc = "handler", !.wrapper = "RuntimeError"]
    /\ UNCHANGED <<unit, unit_in, unit_done, engine_vars>>

\* return self._parse_output(raw_output)
SmParse ==
    /\ unit = "SageMakerEvaluator.analyze"
    /\ unit_out.pc = "parse"
    /\ unit_out' = [unit_out EXCEPT !.pc = "done", !.answer = parse_output(unit_out.raw)]
    /\ unit_done' = TRUE
    /\ UNCHANGED <<unit, unit_in, engine_vars>>

\* except Exception: return self._fallback_response(input_data)
SmFallback ==
    /\ unit = "SageMakerEvaluator.analyze"
    /\ unit_out.pc = "handler"
    /\ unit_out' = [unit_out EXCEPT !.pc = "done",
                                    !.answer = fallback_response(unit_in.input_data)]
    /\ unit_done' = TRUE
    /\ UNCHANGED <<unit, unit_in, engine_vars>>

NextSageMaker ==
    \/ SmAnalyze
    \/ SmInvoke
    \/ \E outcome \in EndpointOutcomes : SmAttempt(outcome)
    \/ SmFailed
    \/ SmParse
    \/ SmFallback

SpecSageMaker == InitSageMaker /\ [][NextSageMaker]_vars

SageMakerDone == unit = "SageMakerEvaluator.analyze" /\ unit_done

SpecCalls(events) == SelectSeq(events, LAMBDA e : e.kind = "call")
SpecWrapperEnded == unit_out.wrapper # "none"

\* the calls and sleeps of invoke_endpoint so far
SpecRetryDiscipline ==
    LET ev == unit_out.events
        n == Len(ev)
    IN  /\ Len(SpecCalls(ev)) <= unit_in.MAX_RETRIES
        /\ \A k \in 1..Len(SpecCalls(ev)) : SpecCalls(ev)[k].attempt = k
        /\ \A i \in 1..n :
              /\ (ev[i].kind = "call" /\ i > 1) =>
                    /\ ev[i - 1].kind = "sleep"
                    /\ i > 2 /\ ev[i - 2].kind = "call"
                    /\ ev[i - 2].outcome \in {"BotoCoreError", "ClientError"}
              /\ ev[i].kind = "sleep" =>
                    /\ i > 1 /\ ev[i - 1].kind = "call"
                    /\ ev[i - 1].outcome \in {"BotoCoreError", "ClientError"}
                    /\ ev[i].attempt = ev[i - 1].attempt
                    /\ ev[i].attempt < unit_in.MAX_RETRIES
                    /\ ev[i].seconds = Pow(BACKOFF_BASE, ev[i].attempt)
              /\ (ev[i].kind = "call" /\ ev[i].outcome \notin {"BotoCoreError", "ClientError"}) => i = n
        /\ SpecWrapperEnded => (n > 0 => ev[n].kind = "call")
        /\ unit_out.wrapper = "returned" => (n > 0 /\ ev[n].outcome = "ok")
        /\ (unit_out.wrapper = "RuntimeError" /\ unit_in.boto_client) =>
              /\ Len(SpecCalls(ev)) = unit_in.MAX_RETRIES
              /\ \A k \in 1..Len(SpecCalls(ev)) :
                    SpecCalls(ev)[k].outcome \in {"BotoCoreError", "ClientError"}
        /\ (SpecWrapperEnded /\ Len(SpecCalls(ev)) = unit_in.MAX_RETRIES /\ n > 0
              /\ ev[n].outcome \in {"BotoCoreError", "ClientError"}) =>
                 unit_out.wrapper = "RuntimeError"

\* what analyze returns
SpecAnswer ==
    /\ ~unit_out.raised
    /\ SageMakerDone =>
          /\ unit_out.answer # NoAnswer
          /\ (extract_endpoint_name(unit_in.endpoint_arn) = <<>>) =>
                /\ unit_out.events = <<>>
                /\ unit_out.answer = fallback_response(unit_in.input_data)
          /\ unit_out.wrapper \in {"RuntimeError", "UnicodeDecodeError"} =>
                unit_out.answer = fallback_response(unit_in.input_data)
          /\ unit_out.wrapper = "returned" => unit_out.answer = parse_output(unit_out.raw)

\* a call that has not returned has a step to take: the guards of the actions
SpecSageMakerCanStep ==
    \/ unit_done
    \/ unit_out.pc \in {"analyze", "invoke", "attempt", "failed", "parse", "handler"}

\* the steps the call has left at most
SpecSageMakerStepsLeft ==
    LET left == unit_in.MAX_RETRIES - unit_out.attempt
    IN  CASE unit_out.pc = "analyze" -> 2 * unit_in.MAX_RETRIES + 6
          [] unit_out.pc = "invoke" -> 2 * unit_in.MAX_RETRIES + 5
          [] unit_out.pc = "attempt" -> 2 * left + 4
          [] unit_out.pc = "failed" -> 2 * left + 3
          [] unit_out.pc \in {"parse", "handler"} -> 1
          [] OTHER -> 0

\* C30: invoke_endpoint calls the endpoint at most MAX_RETRIES times, attempt
\* after attempt; a call follows another only after that one raised
\* BotoCoreError or ClientError and the sleep of BACKOFF_BASE ** attempt was
\* taken; no sleep follows the last attempt; the output of the first call that
\* succeeds is returned with no call after it; RuntimeError is raised once
\* MAX_RETRIES attempts have failed. analyze returns the fallback response over
\* its input when no endpoint is configured or the wrapper raised, the parsed
\* output otherwise, and raises nothing. The call ends: until it has returned
\* it has a step to take, and every step leaves it fewer steps.
C30_BoundedRetries ==
    /\ [](unit = "SageMakerEvaluator.analyze" =>
            SpecRetryDiscipline /\ SpecAnswer /\ SpecSageMakerCanStep)
    /\ [][SpecSageMakerStepsLeft' < SpecSageMakerStepsLeft]_vars

\* under the default MAX_RETRIES three attempts failed, with sleeps of 2 and 4
\* seconds between them and none after the third, and analyze returned the
\* fallback response
C30_Witness ==
    /\ SageMakerDone
    /\ unit_in.MAX_RETRIES = MAX_RETRIES
    /\ unit_out.wrapper = "RuntimeError"
    /\ Len(unit_out.events) = 5
    /\ unit_out.events[2].seconds = 2
    /\ unit_out.events[4].seconds = 4
    /\ unit_out.events[5].kind = "call"
    /\ unit_out.answer = fallback_response(unit_in.input_data)

\* the second attempt succeeded: one sleep, no third call, the output parsed
C30_WitnessSecondAttempt ==
    /\ SageMakerDone
    /\ unit_in.MAX_RETRIES = MAX_RETRIES
    /\ Len(unit_out.events) = 3
    /\ unit_out.events[1].outcome = "ClientError"
    /\ unit_out.wrapper = "returned"
    /\ unit_out.answer = [result |-> [text |-> <<"o", "k">>], raw_output |-> TRUE]

====
